---- MODULE Spec2Model ----
(***************************************************************************)
(* A model of langchain_anyllm: the message translation layer (utils.py)   *)
(* and the call paths of ChatAnyLLM (chat_models.py).                      *)
(*                                                                         *)
(* Conventions.                                                            *)
(*  - A Python dict is a TLA+ function whose domain is the set of the keys *)
(*    the dict holds; an absent key is absent from the domain.            *)
(*  - A Python str is a TLA+ string, except a JSON text (the `arguments`   *)
(*    of a wire tool call), which is the sequence of its characters so    *)
(*    that encoding and parsing are computed character by character.      *)
(*  - Python None is the value None where a str is expected, and NoneSeq   *)
(*    where a list or a JSON text is expected; True and False are PyTrue   *)
(*    and PyFalse where a str may stand too (tool_choice).                 *)
(*  - The args of a ToolCall, a dict whose order of insertion shows in    *)
(*    its JSON text, is the sequence of its <<key, value>> pairs.          *)
(*  - A call that raises returns [ok |-> FALSE, err |-> <exception>];      *)
(*    a call that returns v returns [ok |-> TRUE, val |-> v].              *)
(***************************************************************************)
EXTENDS Integers, Sequences, FiniteSets, TLC

VARIABLES
    inst,       \* the ChatAnyLLM instance the operation runs on (NoInstance for a
                \* module-level function): model, api_key, api_base, model_kwargs
    fn,         \* the operation of the behaviour: a function or a call path
    arg,        \* the input of the function (None for a call path)
    ret,        \* what it returned or raised
    back,       \* _convert_dict_to_message applied to ret (round trip)
    pc,         \* position of the call in flight: "idle" when none
    call,       \* the call in flight: path, messages, stop, kwargs
    sent,       \* the requests handed to completion/acompletion by the call
    resp,       \* what the underlying completion call returned
    pos,        \* the stream in flight: items pulled from the underlying stream,
                \* chunks yielded to the consumer
    item,       \* the item of the underlying stream whose choices are being mapped
    dcc,        \* default_chunk_class of the stream in flight
    out,        \* what the call produced last: a result, a chunk, an error
    streams     \* the streams open at the same time on one instance, by id

vars == <<inst, fn, arg, ret, back, pc, call, sent, resp, pos, item, dcc, out, streams>>

-----------------------------------------------------------------------------
(* Python values *)

None == "<None>"
NoneSeq == <<None>>
PyTrue == "<True>"
PyFalse == "<False>"
EmptyDict == <<>>

Ok(v) == [ok |-> TRUE, val |-> v]
Raise(e) == [ok |-> FALSE, err |-> e]
\* an exception whose text shows the value it is about
RaiseAbout(e, v) == [ok |-> FALSE, err |-> e, about |-> v]

Has(d, k) == k \in DOMAIN d
\* d[k] = v on a dict
Put(d, k, v) == [x \in DOMAIN d \cup {k} |-> IF x = k THEN v ELSE d[x]]
\* a variant in which the first dict wins
MergeFirstWins(d1, d2) ==
    [x \in DOMAIN d1 \cup DOMAIN d2 |-> IF x \in DOMAIN d1 THEN d1[x] ELSE d2[x]]
\* {**d1, **d2}
Merge(d1, d2) == [x \in DOMAIN d1 \cup DOMAIN d2 |-> IF x \in DOMAIN d2 THEN d2[x] ELSE d1[x]]
\* d.get(k) for a str-valued key
Get(d, k) == IF Has(d, k) THEN d[k] ELSE None
\* truth value of an optional str
TruthyStr(s) == s # None /\ s # ""
\* truth value of d.get(k) for a list-valued key
TruthySeq(d, k) == Has(d, k) /\ Len(d[k]) > 0
\* truth value of d.get(k) for a dict-valued key
TruthyDict(d, k) == Has(d, k) /\ DOMAIN d[k] # {}

RECURSIVE SeqMap(_, _)
SeqMap(F(_), s) == IF s = <<>> THEN <<>> ELSE <<F(Head(s))>> \o SeqMap(F, Tail(s))

-----------------------------------------------------------------------------
(* json.dumps and json.loads on the JSON texts of the model: objects whose  *)
(* keys and values are strings over Letters.  A structured dict is the      *)
(* sequence of its <<key, value>> pairs in insertion order.                 *)

Letters == {"a", "b"}
Quote == "\""

\* the characters of a str of the model (its strings inside args have one character)
Chars(s) == IF s = "" THEN <<>> ELSE <<s>>

JsonString(s) == <<Quote>> \o Chars(s) \o <<Quote>>

RECURSIVE JsonPairs(_)
JsonPairs(ps) ==
    IF ps = <<>> THEN <<>>
    ELSE JsonString(ps[1][1]) \o <<":", " ">> \o JsonString(ps[1][2])
         \o (IF Len(ps) > 1 THEN <<",", " ">> ELSE <<>>) \o JsonPairs(Tail(ps))

\* json.dumps(args), default separators
JsonDumps(args) == <<"{">> \o JsonPairs(args) \o <<"}">>

RECURSIVE SkipWs(_)
SkipWs(cs) == IF cs # <<>> /\ Head(cs) = " " THEN SkipWs(Tail(cs)) ELSE cs

\* the body of a string after its opening quote: [ok, val, rest]
RECURSIVE ScanString(_, _)
ScanString(cs, acc) ==
    IF cs = <<>> THEN [ok |-> FALSE, val |-> "", rest |-> <<>>]
    ELSE IF Head(cs) = Quote THEN [ok |-> TRUE, val |-> acc, rest |-> Tail(cs)]
    ELSE IF Head(cs) \in Letters \cup {" ", ":", ",", "{", "}"}
         THEN ScanString(Tail(cs), acc \o Head(cs))
    ELSE [ok |-> FALSE, val |-> "", rest |-> <<>>]

\* d[k] = v on an insertion-ordered dict
RECURSIVE DictSet(_, _, _)
DictSet(ps, k, v) ==
    IF ps = <<>> THEN <<<<k, v>>>>
    ELSE IF ps[1][1] = k THEN <<<<k, v>>>> \o Tail(ps)
    ELSE <<ps[1]>> \o DictSet(Tail(ps), k, v)

NoParse == [ok |-> FALSE, val |-> <<>>, rest |-> <<>>]

\* the members of an object after "{" and whitespace, cs starting at a key;
\* acc holds the members read so far
RECURSIVE ScanMembers(_, _)

\* after a member: "}" ends the object, "," starts the next member
MemberEnd(acc, cs) ==
    IF cs = <<>> THEN NoParse
    ELSE IF Head(cs) = "}" THEN [ok |-> TRUE, val |-> acc, rest |-> Tail(cs)]
    ELSE IF Head(cs) = "," THEN ScanMembers(SkipWs(Tail(cs)), acc)
    ELSE NoParse

\* the value of a member has been scanned
MemberValue(acc, key, v) ==
    IF v.ok THEN MemberEnd(DictSet(acc, key, v.val), SkipWs(v.rest)) ELSE NoParse

\* after the key and whitespace: ":" then the value, a string
MemberColon(acc, key, cs) ==
    IF cs = <<>> \/ Head(cs) # ":" THEN NoParse
    ELSE IF SkipWs(Tail(cs)) = <<>> \/ Head(SkipWs(Tail(cs))) # Quote THEN NoParse
    ELSE MemberValue(acc, key, ScanString(Tail(SkipWs(Tail(cs))), ""))

\* the key of a member has been scanned
MemberKey(acc, k) ==
    IF k.ok THEN MemberColon(acc, k.val, SkipWs(k.rest)) ELSE NoParse

ScanMembers(cs, acc) ==
    IF cs = <<>> \/ Head(cs) # Quote THEN NoParse
    ELSE MemberKey(acc, ScanString(Tail(cs), ""))

\* the object after "{" and whitespace
ScanObject(cs) ==
    IF cs # <<>> /\ Head(cs) = "}" THEN [ok |-> TRUE, val |-> <<>>, rest |-> Tail(cs)]
    ELSE ScanMembers(cs, <<>>)

\* the end of the text: only whitespace may follow the value
JsonEnd(obj) ==
    IF obj.ok /\ SkipWs(obj.rest) = <<>> THEN Ok(obj.val) ELSE Raise("JSONDecodeError")

\* the value of a text whose leading whitespace is skipped
JsonValue(cs) ==
    IF cs = <<>> \/ Head(cs) # "{" THEN Raise("JSONDecodeError")
    ELSE JsonEnd(ScanObject(SkipWs(Tail(cs))))

\* json.loads(text) for a text whose value, if any, is an object of strings:
\* TypeError when text is None, JSONDecodeError when it is no JSON text
JsonLoads(text) ==
    IF text = NoneSeq THEN Raise("TypeError") ELSE JsonValue(SkipWs(text))

-----------------------------------------------------------------------------
(* LangChain messages.  A message is a record: type (its class), content,   *)
(* additional_kwargs, and the fields of its class (role, name,              *)
(* tool_call_id, tool_calls).  A ToolCall is [name, args, id].              *)

HumanMessage(content) ==
    [type |-> "HumanMessage", content |-> content, additional_kwargs |-> EmptyDict]
SystemMessage(content) ==
    [type |-> "SystemMessage", content |-> content, additional_kwargs |-> EmptyDict]
FunctionMessage(content, name) ==
    [type |-> "FunctionMessage", content |-> content, name |-> name,
     additional_kwargs |-> EmptyDict]
ToolMessage(content, tool_call_id) ==
    [type |-> "ToolMessage", content |-> content, tool_call_id |-> tool_call_id,
     additional_kwargs |-> EmptyDict]
ChatMessage(content, role) ==
    [type |-> "ChatMessage", content |-> content, role |-> role,
     additional_kwargs |-> EmptyDict]
AIMessage(content, additional_kwargs, tool_calls) ==
    [type |-> "AIMessage", content |-> content, additional_kwargs |-> additional_kwargs,
     tool_calls |-> tool_calls]
ToolCall(name, args, id) == [name |-> name, args |-> args, id |-> id]

(* _lc_tool_call_to_openai_tool_call *)
LcToolCallToOpenaiToolCall(tool_call) ==
    [type |-> "function",
     id |-> tool_call.id,
     function |-> [name |-> tool_call.name, arguments |-> JsonDumps(tool_call.args)]]

\* a variant that prefers the raw tool_calls of additional_kwargs
AIMessageToDictRawFirst(message, message_dict) ==
    LET d1 == Put(message_dict, "role", "assistant")
        d2 == IF Has(message.additional_kwargs, "function_call")
              THEN Put(d1, "function_call", message.additional_kwargs["function_call"])
              ELSE d1
    IN  IF Has(message.additional_kwargs, "tool_calls")
        THEN Put(d2, "tool_calls", message.additional_kwargs["tool_calls"])
        ELSE IF Len(message.tool_calls) > 0
        THEN Put(d2, "tool_calls", SeqMap(LcToolCallToOpenaiToolCall, message.tool_calls))
        ELSE d2

\* the AIMessage branch of _convert_message_to_dict
AIMessageToDict(message, message_dict) ==
    LET d1 == Put(message_dict, "role", "assistant")
        d2 == IF Has(message.additional_kwargs, "function_call")
              THEN Put(d1, "function_call", message.additional_kwargs["function_call"])
              ELSE d1
    IN  IF Len(message.tool_calls) > 0
        THEN Put(d2, "tool_calls", SeqMap(LcToolCallToOpenaiToolCall, message.tool_calls))
        ELSE IF Has(message.additional_kwargs, "tool_calls")
        THEN Put(d2, "tool_calls", message.additional_kwargs["tool_calls"])
        ELSE d2

\* a variant that leaves additional_kwargs alone
NameNotFromKwargs(message, message_dict) == message_dict

\* the trailing step of _convert_message_to_dict: a name in additional_kwargs
NameFromKwargs(message, message_dict) ==
    IF Has(message.additional_kwargs, "name")
    THEN Put(message_dict, "name", message.additional_kwargs["name"])
    ELSE message_dict

(* _convert_message_to_dict *)
ConvertMessageToDict(message) ==
    LET message_dict == [content |-> message.content]
    IN  IF message.type = "ChatMessage"
        THEN Ok(NameFromKwargs(message, Put(message_dict, "role", message.role)))
        ELSE IF message.type = "HumanMessage"
        THEN Ok(NameFromKwargs(message, Put(message_dict, "role", "user")))
        ELSE IF message.type = "AIMessage"
        THEN Ok(NameFromKwargs(message, AIMessageToDict(message, message_dict)))
        ELSE IF message.type = "SystemMessage"
        THEN Ok(NameFromKwargs(message, Put(message_dict, "role", "system")))
        ELSE IF message.type = "FunctionMessage"
        THEN Ok(NameFromKwargs(message,
                 Put(Put(message_dict, "role", "function"), "name", message.name)))
        ELSE IF message.type = "ToolMessage"
        THEN Ok(NameFromKwargs(message,
                 Put(Put(message_dict, "role", "tool"), "tool_call_id", message.tool_call_id)))
        ELSE RaiseAbout("ValueError", message)

\* the ToolCall of an entry whose arguments json.loads has read
ToolCallFrom(tool_call, args) ==
    IF args.ok
    THEN Ok(ToolCall(tool_call["function"]["name"], args.val, Get(tool_call, "id")))
    ELSE args

\* one pass of the loop over _dict["tool_calls"]: the ToolCall appended, or
\* the exception of the entry
ParseToolCall(tool_call) ==
    IF ~Has(tool_call, "function") THEN Raise("KeyError")
    ELSE IF ~Has(tool_call["function"], "name") THEN Raise("KeyError")
    ELSE IF ~Has(tool_call["function"], "arguments") THEN Raise("KeyError")
    ELSE ToolCallFrom(tool_call, JsonLoads(tool_call["function"]["arguments"]))

\* except (KeyError, json.JSONDecodeError)
Caught(r) == ~r.ok /\ r.err \in {"KeyError", "JSONDecodeError"}

\* the loop over _dict["tool_calls"]: the list built, or the exception that
\* leaves the loop
RECURSIVE ParseToolCalls(_, _)

\* the loop after the pass over its first entry returned or raised r
AfterToolCall(raw, acc, r) ==
    IF r.ok THEN ParseToolCalls(Tail(raw), Append(acc, r.val))
    ELSE IF Caught(r) THEN ParseToolCalls(Tail(raw), acc)
    ELSE r

ParseToolCalls(raw, acc) ==
    IF raw = <<>> THEN Ok(acc) ELSE AfterToolCall(raw, acc, ParseToolCall(Head(raw)))

\* return AIMessage(...), unless the loop raised
AIMessageFrom(content, additional_kwargs, tool_calls) ==
    IF tool_calls.ok THEN Ok(AIMessage(content, additional_kwargs, tool_calls.val))
    ELSE tool_calls

\* additional_kwargs in the assistant branch of _convert_dict_to_message
AIKwargsOf(_dict) ==
    LET kw1 == IF TruthyDict(_dict, "function_call")
               THEN Put(EmptyDict, "function_call", _dict["function_call"])
               ELSE EmptyDict
    IN  IF TruthySeq(_dict, "tool_calls")
        THEN Put(kw1, "tool_calls", _dict["tool_calls"])
        ELSE kw1

\* content = _dict.get("content") or ""
AIContent(_dict) == IF TruthyStr(Get(_dict, "content")) THEN _dict["content"] ELSE ""

\* the assistant branch of _convert_dict_to_message
DictToAIMessage(_dict) ==
    AIMessageFrom(AIContent(_dict),
                  AIKwargsOf(_dict),
                  IF TruthySeq(_dict, "tool_calls")
                  THEN ParseToolCalls(_dict["tool_calls"], <<>>)
                  ELSE Ok(<<>>))

\* a variant that names the function after the role
FunctionMessageNamedByRole(_dict) == Ok(FunctionMessage(_dict["content"], _dict["role"]))

\* the function branch of _convert_dict_to_message
FunctionMessageFrom(_dict) ==
    IF Has(_dict, "name")
    THEN Ok(FunctionMessage(_dict["content"], _dict["name"]))
    ELSE Raise("KeyError")

\* a variant that keeps an empty role
ChatMessageKeepingRole(content, role) == Ok(ChatMessage(content, role))

\* the last two branches of _convert_dict_to_message
ChatMessageFrom(content, role) ==
    IF ~TruthyStr(role) THEN Ok(ChatMessage(content, "unknown"))
    ELSE Ok(ChatMessage(content, role))

(* _convert_dict_to_message *)
ConvertDictToMessage(_dict) ==
    IF ~Has(_dict, "role") THEN Raise("KeyError")
    ELSE LET role == _dict["role"]
         IN  IF role = "assistant" THEN DictToAIMessage(_dict)
             ELSE IF ~Has(_dict, "content") THEN Raise("KeyError")
             ELSE IF role = "user" THEN Ok(HumanMessage(_dict["content"]))
             ELSE IF role = "system" THEN Ok(SystemMessage(_dict["content"]))
             ELSE IF role = "function" THEN FunctionMessageFrom(_dict)
             ELSE IF role = "tool"
             THEN IF Has(_dict, "tool_call_id")
                  THEN Ok(ToolMessage(_dict["content"], _dict["tool_call_id"]))
                  ELSE Raise("KeyError")
             ELSE ChatMessageFrom(_dict["content"], role)

-----------------------------------------------------------------------------
(* Streaming deltas.  A delta, a tool call entry of it, its function and    *)
(* its reasoning payload are records with shape "dict" or "object" and the  *)
(* fields they carry.  A field that holds a dict, an object or a list is    *)
(* absent from the record when it is None or absent (dict.get and getattr   *)
(* with default None read both as None); a field that holds a str may be    *)
(* absent or hold None, which differ for a dict (an empty dict is false,    *)
(* and dict.get(key, default) gives the default for an absent key only).    *)
(* The function of a dict entry may also be present and None (NoneValue):   *)
(* `"function" not in tool_call` tells it from an absent key.               *)
(* An index is written as a str.                                            *)

HumanMessageChunk(content) == [type |-> "HumanMessageChunk", content |-> content]
SystemMessageChunk(content) == [type |-> "SystemMessageChunk", content |-> content]
ToolCallChunk(name, args, id, index) ==
    [name |-> name, args |-> args, id |-> id, index |-> index]

\* None where a dict or an object is expected
NoneValue == [shape |-> "None"]

\* langchain_core's default_tool_chunk_parser on one raw tool call: an entry
\* without the key function gives a chunk with name and args None; the
\* parser reads a dict entry and a dict function by key and fails on
\* anything else
ParseToolChunk(tool_call) ==
    IF tool_call.shape # "dict" THEN Raise("AttributeError")
    ELSE IF ~Has(tool_call, "function")
    THEN Ok(ToolCallChunk(None, None, Get(tool_call, "id"), Get(tool_call, "index")))
    ELSE IF tool_call.function.shape # "dict" THEN Raise("TypeError")
    ELSE IF Has(tool_call.function, "arguments") /\ Has(tool_call.function, "name")
    THEN Ok(ToolCallChunk(tool_call.function.name, tool_call.function.arguments,
                          Get(tool_call, "id"), Get(tool_call, "index")))
    ELSE Raise("KeyError")

RECURSIVE DefaultToolChunkParser(_, _)
DefaultToolChunkParserMore(raw_tool_calls, acc, parsed) ==
    IF parsed.ok THEN DefaultToolChunkParser(Tail(raw_tool_calls), Append(acc, parsed.val))
    ELSE parsed
DefaultToolChunkParser(raw_tool_calls, acc) ==
    IF raw_tool_calls = <<>> THEN Ok(acc)
    ELSE DefaultToolChunkParserMore(raw_tool_calls, acc, ParseToolChunk(Head(raw_tool_calls)))

\* try: values["tool_call_chunks"] = default_tool_chunk_parser(raw_tool_calls)
\* except Exception: the chunks stay as they were given
ParsedOr(parsed, tool_call_chunks) == IF parsed.ok THEN parsed.val ELSE tool_call_chunks

\* AIMessageChunk(content=, additional_kwargs=, tool_call_chunks=): when no
\* tool call chunks are given and additional_kwargs has tool_calls, the
\* validation of the class parses these
AIMessageChunk(content, additional_kwargs, tool_call_chunks) ==
    [type |-> "AIMessageChunk", content |-> content,
     additional_kwargs |-> additional_kwargs,
     tool_call_chunks |->
        IF tool_call_chunks = <<>> /\ TruthySeq(additional_kwargs, "tool_calls")
        THEN ParsedOr(DefaultToolChunkParser(additional_kwargs["tool_calls"], <<>>),
                      tool_call_chunks)
        ELSE tool_call_chunks]
FunctionMessageChunk(content, name) ==
    [type |-> "FunctionMessageChunk", content |-> content, name |-> name]
ChatMessageChunkGeneric(content, role) ==
    [type |-> "ChatMessageChunk", content |-> content, role |-> "generic"]
ChatMessageChunk(content, role) ==
    [type |-> "ChatMessageChunk", content |-> content, role |-> role]

\* v or "" for an optional str
OrEmpty(v) == IF TruthyStr(v) THEN v ELSE ""

\* dict(function_call): the fields without the shape
AsDict(o) == [k \in DOMAIN o \ {"shape"} |-> o[k]]

\* getattr(o, k, None): a dict has none of the attributes read
Attr(o, k) == IF o.shape = "object" THEN Get(o, k) ELSE None

\* model_dump() of a function or function_call model: a dict with the keys
\* name and arguments, None where the model has None
ModelDumpFunction(f) ==
    [k \in DOMAIN f \cup {"name", "arguments"} |->
        IF k = "shape" THEN "dict" ELSE Get(f, k)]

\* chunk_item.model_dump() on a delta: every nested model becomes a dict
ModelDumpEntry(rtc) ==
    LET e == [rtc EXCEPT !.shape = "dict"]
    IN  IF Has(rtc, "function")
        THEN [e EXCEPT !.function = ModelDumpFunction(rtc.function)]
        ELSE Put(e, "function", NoneValue)
ModelDumpDelta(delta) ==
    LET d0 == [delta EXCEPT !.shape = "dict"]
        d1 == IF Has(delta, "function_call")
              THEN [d0 EXCEPT !.function_call = ModelDumpFunction(delta.function_call)]
              ELSE d0
        d2 == IF Has(delta, "reasoning")
              THEN [d1 EXCEPT !.reasoning = [delta.reasoning EXCEPT !.shape = "dict"]]
              ELSE d1
    IN  IF Has(delta, "tool_calls")
        THEN [d2 EXCEPT !.tool_calls = SeqMap(ModelDumpEntry, delta.tool_calls)]
        ELSE d2

\* one pass of the loop over raw_tool_calls: the chunks it appends
ToolCallChunksOf(rtc) ==
    IF rtc.shape = "dict"
    THEN IF Has(rtc, "function") /\ rtc.function.shape = "dict"
            /\ DOMAIN rtc.function # {"shape"}
         THEN <<ToolCallChunk(OrEmpty(Get(rtc.function, "name")),
                              OrEmpty(Get(rtc.function, "arguments")),
                              Get(rtc, "id"), Get(rtc, "index"))>>
         ELSE <<>>
    ELSE IF Has(rtc, "function")
            /\ (rtc.function.shape = "object" \/ DOMAIN rtc.function # {"shape"})
         THEN <<ToolCallChunk(OrEmpty(Attr(rtc.function, "name")),
                              OrEmpty(Attr(rtc.function, "arguments")),
                              Get(rtc, "id"), Get(rtc, "index"))>>
         ELSE <<>>

RECURSIVE ToolCallChunks(_)
ToolCallChunks(raw_tool_calls) ==
    IF raw_tool_calls = <<>> THEN <<>>
    ELSE ToolCallChunksOf(Head(raw_tool_calls)) \o ToolCallChunks(Tail(raw_tool_calls))

\* truth value of the delta's function_call: an object is true, a dict is true
\* when it holds a key
TruthyFunctionCall(delta) ==
    Has(delta, "function_call")
    /\ (delta.function_call.shape = "object" \/ DOMAIN delta.function_call # {"shape"})

\* additional_kwargs of _convert_delta_to_message_chunk
DeltaKwargs(delta) ==
    LET k1 == IF TruthyFunctionCall(delta)
              THEN Put(EmptyDict, "function_call", AsDict(delta.function_call))
              ELSE EmptyDict
        k2 == IF Has(delta, "reasoning") /\ TruthyStr(Get(delta.reasoning, "content"))
              THEN Put(k1, "reasoning_content", delta.reasoning.content)
              ELSE k1
    IN  IF TruthySeq(delta, "tool_calls")
        THEN Put(k2, "tool_calls", delta.tool_calls)
        ELSE k2

\* FunctionMessageChunk(content=content, name=name): both must be a str
NewFunctionMessageChunk(content, name) ==
    IF content = None \/ name = None THEN Raise("ValidationError")
    ELSE Ok(FunctionMessageChunk(content, name))

\* role == r or default_class == c: the test of each branch of the
\* classification
RoleElseDefault(role, r, default_class, c) == role = r \/ (role = None /\ default_class = c)
RoleOrDefault(role, r, default_class, c) == role = r \/ default_class = c

(* _convert_delta_to_message_chunk *)
ConvertDeltaToMessageChunk(delta, default_class) ==
    LET role == Get(delta, "role")
        content == OrEmpty(Get(delta, "content"))
        function_call == TruthyFunctionCall(delta)
        tool_call_chunks == IF TruthySeq(delta, "tool_calls")
                            THEN ToolCallChunks(delta.tool_calls)
                            ELSE <<>>
    IN  IF RoleOrDefault(role, "user", default_class, "HumanMessageChunk")
        THEN Ok(HumanMessageChunk(content))
        ELSE IF RoleOrDefault(role, "assistant", default_class, "AIMessageChunk")
        THEN Ok(AIMessageChunk(content, DeltaKwargs(delta), tool_call_chunks))
        ELSE IF RoleOrDefault(role, "system", default_class, "SystemMessageChunk")
        THEN Ok(SystemMessageChunk(content))
        ELSE IF default_class = "FunctionMessageChunk" /\ function_call
        THEN NewFunctionMessageChunk(
                  IF delta.function_call.shape = "dict"
                  THEN IF Has(delta.function_call, "arguments")
                       THEN delta.function_call.arguments ELSE ""
                  ELSE OrEmpty(Get(delta.function_call, "arguments")),
                  IF delta.function_call.shape = "dict"
                  THEN IF Has(delta.function_call, "name")
                       THEN delta.function_call.name ELSE ""
                  ELSE OrEmpty(Get(delta.function_call, "name")))
        ELSE IF RoleOrDefault(role, "tool", default_class, "ChatMessageChunk")
        THEN IF role = None THEN Raise("ValidationError")
             ELSE Ok(ChatMessageChunk(content, role))
        \* default_class(content=content): the classes left (FunctionMessageChunk,
        \* ToolMessageChunk) require a name or a tool_call_id
        ELSE Raise("ValidationError")

-----------------------------------------------------------------------------
(* ChatAnyLLM *)

\* a variant that trusts the upstream total
UsageMetadataUpstreamTotal(token_usage) ==
    [input_tokens |-> token_usage.prompt_tokens,
     output_tokens |-> token_usage.completion_tokens,
     total_tokens |-> token_usage.total_tokens]

\* UsageMetadata built from response.usage
UsageMetadata(token_usage) ==
    [input_tokens |-> token_usage.prompt_tokens,
     output_tokens |-> token_usage.completion_tokens,
     total_tokens |-> token_usage.prompt_tokens + token_usage.completion_tokens]

\* the ChatGeneration of a choice whose message is converted
GenerationOf(self, response, res, message) ==
    IF ~message.ok THEN message
    ELSE Ok([message |->
                IF message.val.type = "AIMessage" /\ Has(response, "usage")
                THEN Put(Put(message.val, "response_metadata", [model_name |-> self.model]),
                         "usage_metadata", UsageMetadata(response.usage))
                ELSE message.val,
             generation_info |-> [finish_reason |-> Get(res, "finish_reason")]])

\* one pass of the loop of _create_chat_result.
\* response.usage is None when the response record has no usage field.
ChatGeneration(self, response, res) ==
    GenerationOf(self, response, res, ConvertDictToMessage(res.message))

\* the loop of _create_chat_result: the generations, or the exception of the
\* first choice whose message cannot be converted
RECURSIVE Generations(_, _, _, _)

AfterGeneration(self, response, choices, acc, gen) ==
    IF gen.ok THEN Generations(self, response, Tail(choices), Append(acc, gen.val))
    ELSE gen

Generations(self, response, choices, acc) ==
    IF choices = <<>> THEN Ok(acc)
    ELSE AfterGeneration(self, response, choices, acc,
                         ChatGeneration(self, response, Head(choices)))

\* return ChatResult(...), unless the loop raised
ChatResult(self, response, generations) ==
    IF ~generations.ok THEN generations
    ELSE Ok([generations |-> generations.val,
             llm_output |-> [token_usage |-> IF Has(response, "usage")
                                             THEN response.usage ELSE None,
                             model |-> self.model]])

(* ChatAnyLLM._create_chat_result *)
CreateChatResult(self, response) ==
    ChatResult(self, response, Generations(self, response, response.choices, <<>>))

\* a variant that hands tool_choice on as it is
ToolChoiceAsGiven(tool_choice) == tool_choice

\* the translation of tool_choice in _create_params
TranslateToolChoice(tool_choice) ==
    IF tool_choice = "any" THEN "required"
    ELSE IF tool_choice = PyTrue THEN "required"
    ELSE IF tool_choice = PyFalse THEN "none"
    ELSE tool_choice

\* a variant that lets the call-time stop override the default
NoStopConflict(params, stop) == FALSE

\* if stop is not None: if "stop" in params
StopConflict(params, stop) == stop # NoneSeq /\ Has(params, "stop")

(* ChatAnyLLM._create_params; stop = NoneSeq is stop=None *)
CreateParams(self, stop, kwargs) ==
    LET p0 == Merge([api_key |-> self.api_key, api_base |-> self.api_base,
                     model |-> self.model], self.model_kwargs)
        p1 == IF stop # NoneSeq THEN Put(p0, "stop", stop) ELSE p0
        p2 == IF Has(kwargs, "tool_choice") /\ Has(kwargs, "tools")
              THEN Put(p1, "tool_choice", TranslateToolChoice(kwargs["tool_choice"]))
              ELSE p1
        rest == [k \in DOMAIN kwargs \ {"tool_choice"} |-> kwargs[k]]
    IN  IF StopConflict(p0, stop) THEN Raise("ValueError")
        ELSE Ok(Merge(p2, rest))

\* message_dicts = [_convert_message_to_dict(m) for m in messages]
RECURSIVE MessageDicts(_, _)

\* a variant that drops the messages that cannot be converted
AfterMessageDictSkipping(messages, acc, d) ==
    IF d.ok THEN MessageDicts(Tail(messages), Append(acc, d.val))
    ELSE MessageDicts(Tail(messages), acc)

AfterMessageDict(messages, acc, d) ==
    IF d.ok THEN MessageDicts(Tail(messages), Append(acc, d.val)) ELSE d

MessageDicts(messages, acc) ==
    IF messages = <<>> THEN Ok(acc)
    ELSE AfterMessageDict(messages, acc, ConvertMessageToDict(Head(messages)))

-----------------------------------------------------------------------------
(* Bounds and input sets *)

MaxToolCalls == 2      \* tool calls of one message
MaxArgs == 2           \* keys of one structured args dict
MaxChoices == 2        \* choices of one completion or stream chunk
MaxTokens == 2         \* a token count of a usage record
MaxMessages == 2       \* messages of one call
MaxItems == 2          \* items of one underlying stream

\* all sequences over S of length at most n
SeqsUpTo(S, n) == UNION {[1..k -> S] : k \in 0..n}

Contents == {"", "hi"}
ChatRoles == {"", "user", "assistant", "system", "function", "tool", "critic"}

\* structured args: insertion-ordered dicts with distinct keys
ArgsSet ==
    {ps \in SeqsUpTo(Letters \X {"b"}, MaxArgs) :
        \A i, j \in 1..Len(ps) : i # j => ps[i][1] # ps[j][1]}

ToolCalls == {ToolCall("f", a, i) : a \in ArgsSet, i \in {"call_1", None}}

\* a raw provider tool call, as kept in additional_kwargs: one whose
\* arguments AIMessage could not read into a ToolCall of its own
RawToolCall ==
    [id |-> "raw_1", type |-> "function",
     function |-> [name |-> "g", arguments |-> <<"{", Quote, "a", Quote>>]]
RawFunctionCall == [name |-> "g", arguments |-> <<"{", "}">>]

\* every dict over the optional keys ks of the record r
SubDicts(r) == {[k \in ks |-> r[k]] : ks \in SUBSET DOMAIN r}

PlainKwargs == SubDicts([name |-> "kw"])
AIKwargs ==
    UNION {{d, Put(d, "tool_calls", <<>>), Put(d, "tool_calls", <<RawToolCall>>)} :
           d \in SubDicts([name |-> "kw", function_call |-> RawFunctionCall])}

With(m, additional_kwargs) == [m EXCEPT !.additional_kwargs = additional_kwargs]

\* a BaseMessage of a class _convert_message_to_dict does not know
RemoveMessage(content) ==
    [type |-> "RemoveMessage", content |-> content, additional_kwargs |-> EmptyDict]

Messages ==
    UNION {
        {With(HumanMessage(c), k), With(SystemMessage(c), k), With(RemoveMessage(c), k),
         With(FunctionMessage(c, "fname"), k), With(ToolMessage(c, "call_1"), k)}
        \cup {With(ChatMessage(c, r), k) : r \in ChatRoles}
        : c \in Contents, k \in PlainKwargs}
    \cup {AIMessage(c, k, tcs) :
            c \in Contents, k \in AIKwargs, tcs \in SeqsUpTo(ToolCalls, MaxToolCalls)}

\* wire tool calls: well formed ones, and the malformed ones of the model
WireFunction(name, text) == [name |-> name, arguments |-> text]
GoodTexts == {<<"{", "}">>, JsonDumps(<<<<"a", "b">>>>)}
BadTexts == {<<"{", Quote, "a", Quote>>, <<>>}
WireToolCalls ==
    {[id |-> "call_1", type |-> "function", function |-> WireFunction("f", t)] :
        t \in GoodTexts \cup BadTexts \cup {NoneSeq}}
    \cup {[type |-> "function", function |-> WireFunction("f", <<"{", "}">>)],
          [id |-> "call_2", type |-> "function"],
          [id |-> "call_3", type |-> "function", function |-> [name |-> "f"]],
          [id |-> "call_4", type |-> "function", function |-> [arguments |-> <<"{", "}">>]]}

\* wire messages: role absent, None, empty, known or custom; content absent,
\* a str, or (assistant) None
WireRoles == {None, "", "user", "assistant", "system", "function", "tool", "critic"}
WireDicts ==
    UNION {SubDicts([role |-> r, content |-> c]) : r \in WireRoles \ {"assistant"}, c \in Contents}
    \cup UNION {SubDicts([role |-> "function", content |-> c, name |-> "fname"]) : c \in Contents}
    \cup UNION {SubDicts([role |-> "tool", content |-> c, tool_call_id |-> "call_1"]) : c \in Contents}
    \cup UNION {UNION {{d, Put(d, "tool_calls", tcs)} :
                        d \in {e \in SubDicts([role |-> "assistant", content |-> c,
                                               function_call |-> RawFunctionCall]) :
                                   Has(e, "role")}}
                : c \in Contents \cup {None}, tcs \in SeqsUpTo(WireToolCalls, MaxToolCalls)}

NoInstance == [model |-> None]
Instances ==
    {[model |-> "gpt-4", api_key |-> k, api_base |-> None, model_kwargs |-> mk] :
        k \in {None, "sk"},
        mk \in {EmptyDict, [stop |-> <<"END">>], [temperature |-> "0.5"],
                [tool_choice |-> "auto"], [model |-> "o1", temperature |-> "0.5"]}}
\* the instances of the call paths
CallInstances == {i \in Instances : i.api_key = None}

\* a ChatCompletion (after model_dump): choices and, unless None, usage
Usages ==
    [prompt_tokens : 0..MaxTokens, completion_tokens : 0..MaxTokens,
     total_tokens : 0..MaxTokens]
ChoiceMessages ==
    {[role |-> "assistant", content |-> "hi"],
     [role |-> "assistant", content |-> None,
      tool_calls |-> <<[id |-> "call_1", type |-> "function",
                        function |-> WireFunction("f", <<"{", "}">>)]>>],
     [role |-> "user", content |-> "hi"],
     [role |-> "tool", content |-> "hi", tool_call_id |-> "call_1"],
     [role |-> "critic", content |-> "hi"],
     [role |-> None, content |-> "hi"]}
Choices == {[message |-> m, finish_reason |-> "stop"] : m \in ChoiceMessages}
ChatCompletions ==
    {[choices |-> cs] : cs \in SeqsUpTo(Choices, MaxChoices)}
    \cup {[choices |-> cs, usage |-> u] : cs \in SeqsUpTo(Choices, MaxChoices), u \in Usages}

Stops == {NoneSeq, <<>>, <<"x">>}
ToolChoices == {"any", PyTrue, PyFalse, "auto", "none", None}
KwargsSet ==
    {EmptyDict, [temperature |-> "0.9"], [tools |-> <<"t1">>],
     [model |-> "o3"], [api_base |-> "http://x", temperature |-> "0.9"]}
    \cup {[tool_choice |-> tc] : tc \in ToolChoices}
    \cup {[tools |-> <<"t1">>, tool_choice |-> tc] : tc \in ToolChoices}

\* inputs of _convert_delta_to_message_chunk
DefaultClasses ==
    {"HumanMessageChunk", "AIMessageChunk", "SystemMessageChunk", "FunctionMessageChunk",
     "ChatMessageChunk", "ToolMessageChunk"}
DeltaRoles == {"user", "assistant", "system", "tool", "critic"}
ObjectShapes == {"dict", "object"}

\* the record r given as a dict or as an object
Shaped(r, shape) == [k \in DOMAIN r \cup {"shape"} |-> IF k = "shape" THEN shape ELSE r[k]]
\* d with the field k, when there is one: o is <<>> or <<value>>
Opt(d, k, o) == IF o = <<>> THEN d ELSE Put(d, k, o[1])
Maybe(S) == {<<>>} \cup {<<x>> : x \in S}

\* function_call: a model with name and arguments, a dict with the same
\* keys, or a dict with fewer keys
FunctionCalls ==
    {Shaped([name |-> n, arguments |-> a], sh) :
        n \in {"f", None}, a \in {"{}", None}, sh \in ObjectShapes}
    \cup {[shape |-> "dict", name |-> "f"], [shape |-> "dict"]}

\* reasoning payloads
Reasonings ==
    {Shaped([content |-> c], sh) : c \in {"why", None}, sh \in ObjectShapes}
    \cup {[shape |-> "dict"]}

\* entries of a delta's tool_calls: a first fragment and a continuation of
\* a tool call in both shapes, entries without a function, entries whose
\* function is of the other shape, a dict entry whose function is an empty
\* dict, a dict entry whose function is None
ToolFunctions == <<[name |-> "f", arguments |-> "{"], [name |-> None, arguments |-> "}"]>>
RawEntries ==
    {Shaped([id |-> "call_1", index |-> "0", function |-> Shaped(ToolFunctions[1], sh2)], sh1) :
        sh1 \in ObjectShapes, sh2 \in ObjectShapes}
    \cup {Shaped([index |-> "0", function |-> Shaped(ToolFunctions[2], sh)], sh) :
             sh \in ObjectShapes}
    \cup {Shaped([id |-> "call_2", index |-> "1"], sh) : sh \in ObjectShapes}
    \cup {[shape |-> "dict", id |-> "call_3", index |-> "1", function |-> [shape |-> "dict"]],
           [shape |-> "dict", id |-> "call_3", index |-> "1", function |-> NoneValue]}

\* deltas that differ in role, content and function_call; deltas that differ
\* in tool_calls; deltas that differ in reasoning
ClassDeltas ==
    {Opt(Opt(Opt([shape |-> sh], "role", r), "content", c), "function_call", fc) :
        sh \in ObjectShapes, r \in Maybe(DeltaRoles), c \in Maybe({"Hi"}),
        fc \in Maybe(FunctionCalls)}
ToolDeltas ==
    {[shape |-> sh, content |-> "Hi", tool_calls |-> tcs] :
        sh \in ObjectShapes, tcs \in SeqsUpTo(RawEntries, MaxToolCalls) \ {<<>>}}
ReasoningDeltas ==
    {[shape |-> sh, role |-> "assistant", reasoning |-> rs] :
        sh \in ObjectShapes, rs \in Reasonings}
DeltaInputs ==
    {[delta |-> d, default_class |-> dc] : d \in ClassDeltas, dc \in DefaultClasses}
    \cup {[delta |-> d, default_class |-> "AIMessageChunk"] :
             d \in ToolDeltas \cup ReasoningDeltas}

\* the delta and every part of it are objects: a delta as the stream gives it
AllObjects(delta) ==
    /\ delta.shape = "object"
    /\ Has(delta, "function_call") => delta.function_call.shape = "object"
    /\ Has(delta, "reasoning") => delta.reasoning.shape = "object"
    /\ Has(delta, "tool_calls") =>
           \A i \in 1..Len(delta.tool_calls) :
               /\ delta.tool_calls[i].shape = "object"
               /\ Has(delta.tool_calls[i], "function") =>
                      delta.tool_calls[i].function.shape = "object"

-----------------------------------------------------------------------------
(* State machine *)

NotCalled == [ok |-> FALSE, err |-> "<not called>"]
NoCall == [path |-> "<none>"]
NoItem == [kind |-> "<none>"]
NoOut == [kind |-> "none"]
NoStreams == <<>>

Paths == {"_generate", "_agenerate", "_stream", "_astream"}

\* the calls of the model: _generate and _agenerate with stream or without
CallMessages == {HumanMessage("hi"), RemoveMessage("")}
Calls ==
    {[path |-> p, stream |-> st, messages |-> ms, stop |-> stop, kwargs |-> EmptyDict,
      run_manager |-> rm] :
        p \in Paths, st \in BOOLEAN, ms \in SeqsUpTo(CallMessages, MaxMessages),
        stop \in Stops, rm \in BOOLEAN}

Streaming(c) == c.path \in {"_stream", "_astream"} \/ c.stream
Async(c) == c.path \in {"_agenerate", "_astream"}

\* what the underlying completion call may return
Shapes == {"ChatCompletion", "Iterator", "AsyncIterator", "Other"}
CallCompletions ==
    {[choices |-> <<[message |-> [role |-> "assistant", content |-> "hi"],
                     finish_reason |-> "stop"]>>,
      usage |-> [prompt_tokens |-> 2, completion_tokens |-> 1, total_tokens |-> 0]],
     [choices |-> <<[message |-> [role |-> "assistant", content |-> None],
                     finish_reason |-> "stop"],
                    [message |-> [role |-> "user", content |-> "hi"],
                     finish_reason |-> "stop"]>>],
     [choices |-> <<[message |-> [role |-> "assistant", content |-> None,
                                  tool_calls |-> <<[id |-> "call_1", type |-> "function",
                                                    function |-> WireFunction("f", NoneSeq)]>>],
                     finish_reason |-> "tool_calls"]>>]}
Responses ==
    {[shape |-> "ChatCompletion", body |-> b] : b \in CallCompletions}
    \cup {[shape |-> sh] : sh \in Shapes \ {"ChatCompletion"}}

\* the deltas and the items of an underlying stream: ChatCompletionChunk
\* objects, and a value that is no pydantic model
Deltas ==
    {[shape |-> "object", role |-> "assistant", content |-> ""],
     [shape |-> "object", content |-> "Hi"],
     [shape |-> "object", role |-> "user", content |-> "Hi"],
     [shape |-> "object", role |-> "system", content |-> "Hi"],
     [shape |-> "object", role |-> "tool", content |-> "Hi"]}
StreamItems ==
    {[kind |-> "ChatCompletionChunk", choices |-> ds, done |-> 0] :
        ds \in SeqsUpTo(Deltas, MaxChoices)}
    \cup {[kind |-> "Other"]}

\* default_chunk_class when a stream starts, and after a chunk was built
InitialDefaultSystem == "SystemMessageChunk"
InitialDefault == "AIMessageChunk"
OldDefaultChunkClass(message_chunk, default_chunk_class) == default_chunk_class
NewDefaultChunkClass(message_chunk, default_chunk_class) == message_chunk.type

\* no call path runs in a behaviour that applies one function
Idle ==
    /\ pc = "idle"
    /\ call = NoCall
    /\ sent = <<>>
    /\ resp = NotCalled
    /\ pos = [pulled |-> 0, yielded |-> 0]
    /\ item = NoItem
    /\ dcc = None
    /\ out = NoOut

\* the caller is about to apply f to a
About(f, i, a) ==
    /\ fn = f
    /\ inst = i
    /\ arg = a
    /\ ret = NotCalled
    /\ back = NotCalled

\* the caller is about to run the call path c on instance i
AboutCall(i, c) ==
    /\ About(c.path, i, None)
    /\ pc = "start"
    /\ call = c
    /\ sent = <<>>
    /\ resp = NotCalled
    /\ pos = [pulled |-> 0, yielded |-> 0]
    /\ item = NoItem
    /\ dcc = None
    /\ out = NoOut

\* a behaviour applies one operation to one input: the operations share no
\* state, so the input is drawn with the initial state
Init ==
    /\ streams = NoStreams
    /\ \/ Idle /\ \E message \in Messages :
                    About("_convert_message_to_dict", NoInstance, message)
       \/ Idle /\ \E d \in WireDicts : About("_convert_dict_to_message", NoInstance, d)
       \/ Idle /\ \E i \in Instances, response \in ChatCompletions :
                     About("_create_chat_result", i, response)
       \/ Idle /\ \E i \in Instances, stop \in Stops, kwargs \in KwargsSet :
                     About("_create_params", i, [stop |-> stop, kwargs |-> kwargs])
       \/ Idle /\ \E a \in DeltaInputs :
                     About("_convert_delta_to_message_chunk", NoInstance, a)
       \/ \E i \in CallInstances, c \in Calls :
             /\ c.stream => c.path \in {"_generate", "_agenerate"}
             /\ AboutCall(i, c)

Applies(f) ==
    /\ fn = f
    /\ ret = NotCalled
    /\ UNCHANGED <<streams, inst, fn, arg, pc, call, sent, resp, pos, item, dcc, out>>

\* _convert_message_to_dict(message)
CallConvertMessageToDict ==
    /\ Applies("_convert_message_to_dict")
    /\ ret' = ConvertMessageToDict(arg)
    /\ back' = back

\* _convert_dict_to_message applied to the dict just produced
CallConvertBack ==
    /\ fn = "_convert_message_to_dict"
    /\ ret # NotCalled
    /\ ret.ok
    /\ back = NotCalled
    /\ back' = ConvertDictToMessage(ret.val)
    /\ UNCHANGED <<streams, inst, fn, arg, ret, pc, call, sent, resp, pos, item, dcc, out>>

\* _convert_dict_to_message(_dict)
CallConvertDictToMessage ==
    /\ Applies("_convert_dict_to_message")
    /\ ret' = ConvertDictToMessage(arg)
    /\ back' = back

\* self._create_chat_result(response)
CallCreateChatResult ==
    /\ Applies("_create_chat_result")
    /\ ret' = CreateChatResult(inst, arg)
    /\ back' = back

\* self._create_params(stop, **kwargs)
CallCreateParams ==
    /\ Applies("_create_params")
    /\ ret' = CreateParams(inst, arg.stop, arg.kwargs)
    /\ back' = back

\* _convert_delta_to_message_chunk(delta, default_class)
CallConvertDelta ==
    /\ Applies("_convert_delta_to_message_chunk")
    /\ ret' = ConvertDeltaToMessageChunk(arg.delta, arg.default_class)
    /\ back' = back

\* _convert_delta_to_message_chunk applied to the model_dump() of the delta,
\* as _stream applies it
CallConvertDumped ==
    /\ fn = "_convert_delta_to_message_chunk"
    /\ ret # NotCalled
    /\ back = NotCalled
    /\ AllObjects(arg.delta)
    /\ back' = ConvertDeltaToMessageChunk(ModelDumpDelta(arg.delta), arg.default_class)
    /\ UNCHANGED <<streams, inst, fn, arg, ret, pc, call, sent, resp, pos, item, dcc, out>>

-----------------------------------------------------------------------------
(* The call paths: _generate, _agenerate, _stream, _astream *)

Failed(r) == [kind |-> "error", err |-> r]

\* a variant that takes every value for an instance
IsAnything(shape, class) == TRUE

\* isinstance(response, class)
IsInstance(shape, class) == shape = class

\* the request handed to completion / acompletion, or the exception raised
\* before it: the messages are converted first, the parameters built next
RequestFrom(c, message_dicts, params) ==
    IF ~message_dicts.ok THEN message_dicts
    ELSE IF ~params.ok THEN params
    ELSE Ok([fn |-> IF Async(c) THEN "acompletion" ELSE "completion",
             messages |-> message_dicts.val,
             params |-> IF Streaming(c) THEN Put(params.val, "stream", TRUE)
                        ELSE params.val])

Request(self, c) ==
    RequestFrom(c, MessageDicts(c.messages, <<>>), CreateParams(self, c.stop, c.kwargs))

\* the call runs up to the underlying completion call
Started(req) ==
    /\ pc' = IF req.ok THEN "awaiting" ELSE "raised"
    /\ sent' = IF req.ok THEN Append(sent, req.val) ELSE sent
    /\ out' = IF req.ok THEN out ELSE Failed(req)
    /\ dcc' = IF req.ok /\ Streaming(call) THEN InitialDefault ELSE dcc

StartCall ==
    /\ pc = "start"
    /\ Started(Request(inst, call))
    /\ UNCHANGED <<streams, inst, fn, arg, ret, back, call, resp, pos, item>>

\* _generate / _agenerate after the completion call returned response
Generated(response, result) ==
    IF ~IsInstance(response.shape, "ChatCompletion")
    THEN pc' = "raised" /\ out' = Failed(Raise("ValueError"))
    ELSE IF result.ok
    THEN pc' = "returned" /\ out' = [kind |-> "result", val |-> result.val]
    ELSE pc' = "raised" /\ out' = Failed(result)

GenerateReturn ==
    /\ pc = "awaiting"
    /\ ~Streaming(call)
    /\ \E response \in Responses :
        /\ resp' = response
        /\ Generated(response,
                     IF response.shape = "ChatCompletion"
                     THEN CreateChatResult(inst, response.body)
                     ELSE NotCalled)
    /\ UNCHANGED <<streams, inst, fn, arg, ret, back, call, sent, pos, item, dcc>>

\* the class the stream must be an instance of
StreamShape(c) == IF c.path \in {"_stream", "_generate"} THEN "Iterator" ELSE "AsyncIterator"

\* _stream / _astream after the completion call returned result
StreamOpen ==
    /\ pc = "awaiting"
    /\ Streaming(call)
    /\ \E shape \in Shapes :
        /\ resp' = [shape |-> shape]
        /\ IF IsInstance(shape, StreamShape(call))
           THEN pc' = "streaming" /\ out' = out
           ELSE pc' = "raised" /\ out' = Failed(Raise("ValueError"))
    /\ UNCHANGED <<streams, inst, fn, arg, ret, back, call, sent, pos, item, dcc>>

\* the body of the loops of _stream and _astream for one delta: the chunk is
\* built, the observer is told, the chunk is yielded.  _astream awaits the
\* observer: it stops there (pc "token") and yields in a later step.  rest.held is 1 when
\* the delta belongs to the item the loop already holds, rest.item is what
\* the loop holds afterwards
Yielded(message_chunk, rest) ==
    IF message_chunk.ok /\ Async(call) /\ call.run_manager
    THEN /\ pc' = "token"
         /\ dcc' = NewDefaultChunkClass(message_chunk.val, dcc)
         /\ out' = [kind |-> "token", chunk |-> message_chunk.val,
                    token |-> message_chunk.val.content]
         /\ pos' = [pos EXCEPT !.pulled = pos.pulled + 1 - rest.held]
         /\ item' = rest.item
    ELSE IF message_chunk.ok
    THEN /\ pc' = "streaming"
         /\ dcc' = NewDefaultChunkClass(message_chunk.val, dcc)
         /\ out' = IF call.run_manager
                   THEN [kind |-> "chunk", chunk |-> message_chunk.val,
                         token |-> message_chunk.val.content]
                   ELSE [kind |-> "chunk", chunk |-> message_chunk.val]
         /\ pos' = [pulled |-> pos.pulled + 1 - rest.held, yielded |-> pos.yielded + 1]
         /\ item' = rest.item
    ELSE /\ pc' = "raised"
         /\ out' = Failed(message_chunk)
         /\ pos' = [pos EXCEPT !.pulled = pos.pulled + 1 - rest.held]
         /\ item' = NoItem
         /\ dcc' = dcc

\* the loop pulled the item it and left it without a chunk: it has no
\* choices, or the loop raised on it
Pulled(it, outcome) ==
    /\ pos' = [pos EXCEPT !.pulled = pos.pulled + 1]
    /\ dcc' = dcc
    /\ IF outcome.ok THEN pc' = pc /\ out' = out /\ item' = NoItem
       ELSE pc' = "raised" /\ out' = Failed(outcome) /\ item' = it

\* _stream: the for loop pulls the next item of the underlying stream
StreamPull ==
    /\ pc = "streaming"
    /\ ~Async(call)
    /\ pos.pulled < MaxItems
    /\ \E it \in StreamItems :
        IF it.kind # "ChatCompletionChunk" THEN Pulled(it, Raise("AttributeError"))
        ELSE IF Len(it.choices) = 0 THEN Pulled(it, Ok(it))
        ELSE Yielded(ConvertDeltaToMessageChunk(ModelDumpDelta(it.choices[1]), dcc),
                     [held |-> 0, item |-> NoItem])
    /\ UNCHANGED <<streams, inst, fn, arg, ret, back, call, sent, resp>>

\* _astream: the async for loop pulls the next item of the underlying stream
AStreamPull ==
    /\ pc = "streaming"
    /\ Async(call)
    /\ item = NoItem
    /\ pos.pulled < MaxItems
    /\ \E it \in StreamItems :
        IF it.kind # "ChatCompletionChunk" THEN Pulled(it, Raise("ValueError"))
        ELSE IF Len(it.choices) = 0 THEN Pulled(it, Ok(it))
        ELSE Yielded(ConvertDeltaToMessageChunk(it.choices[1], dcc),
                     [held |-> 0,
                      item |-> IF Len(it.choices) > 1 THEN [it EXCEPT !.done = 1]
                               ELSE NoItem])
    /\ UNCHANGED <<streams, inst, fn, arg, ret, back, call, sent, resp>>

\* _astream: the inner loop goes on to the next choice of the item it holds
AStreamChoice ==
    /\ pc = "streaming"
    /\ Async(call)
    /\ item # NoItem
    /\ Yielded(ConvertDeltaToMessageChunk(item.choices[item.done + 1], dcc),
               [held |-> 1,
                item |-> IF Len(item.choices) > item.done + 1
                         THEN [item EXCEPT !.done = item.done + 1]
                         ELSE NoItem])
    /\ UNCHANGED <<streams, inst, fn, arg, ret, back, call, sent, resp>>

\* _astream: on_llm_new_token returned, the generator yields the chunk
AStreamYield ==
    /\ pc = "token"
    /\ pc' = "streaming"
    /\ out' = [out EXCEPT !.kind = "chunk"]
    /\ pos' = [pos EXCEPT !.yielded = pos.yielded + 1]
    /\ UNCHANGED <<streams, inst, fn, arg, ret, back, call, sent, resp, item, dcc>>

\* _astream: the task is cancelled while the generator awaits
\* on_llm_new_token: CancelledError leaves the call, nothing is yielded
AStreamCancel ==
    /\ pc = "token"
    /\ pc' = "cancelled"
    /\ out' = Failed(Raise("CancelledError"))
    /\ item' = NoItem
    /\ UNCHANGED <<streams, inst, fn, arg, ret, back, call, sent, resp, pos, dcc>>

\* the underlying stream ends: the generator returns; generate_from_stream and
\* agenerate_from_stream, which drive it for _generate and _agenerate, fail
\* on a stream without a chunk and merge the chunks otherwise
StreamEnd ==
    /\ pc = "streaming"
    /\ item = NoItem
    /\ IF call.path \in {"_stream", "_astream"}
       THEN pc' = "exhausted" /\ out' = [kind |-> "end"]
       ELSE IF pos.yielded = 0
       THEN pc' = "raised" /\ out' = Failed(Raise("ValueError"))
       ELSE pc' = "returned" /\ out' = [kind |-> "result", merged |-> pos.yielded]
    /\ UNCHANGED <<streams, inst, fn, arg, ret, back, call, sent, resp, pos, item, dcc>>

Next ==
    \/ CallConvertMessageToDict
    \/ CallConvertBack
    \/ CallConvertDictToMessage
    \/ CallCreateChatResult
    \/ CallCreateParams
    \/ CallConvertDelta
    \/ CallConvertDumped
    \/ StartCall
    \/ GenerateReturn
    \/ StreamOpen
    \/ StreamPull
    \/ AStreamPull
    \/ AStreamChoice
    \/ AStreamYield
    \/ AStreamCancel
    \/ StreamEnd

Spec == Init /\ [][Next]_vars

-----------------------------------------------------------------------------
(* Streams side by side.  _stream and _astream are generators: each call    *)
(* has its own default_chunk_class and its own place in its underlying      *)
(* stream.  streams[s] is one running generator: the items of its           *)
(* underlying stream, how many it pulled, the choices of the item the       *)
(* inner loop of _astream still holds, its default_chunk_class, and the log *)
(* of what it did: the pull of item k, the token given to the observer and  *)
(* the chunk yielded for a delta of item k.  _stream runs from one yield to  *)
(* the next without anything in between.  _astream with a run_manager       *)
(* awaits on_llm_new_token between the token and the yield: there the other *)
(* generator may run, and the task that drives the generator may be         *)
(* cancelled, which ends the generator without the yield; pending is the    *)
(* chunk a generator that waits there is about to yield.                    *)

StreamIds == {1, 2}
MaxFeed == 2

ChunkItem(ds) == [kind |-> "ChatCompletionChunk", choices |-> ds]
FeedItems ==
    {ChunkItem(<<>>),
     ChunkItem(<<[shape |-> "object", role |-> "assistant", content |-> ""]>>),
     ChunkItem(<<[shape |-> "object", content |-> "Hi"]>>),
     ChunkItem(<<[shape |-> "object", role |-> "user", content |-> "Hi"]>>),
     ChunkItem(<<[shape |-> "object", role |-> "system", content |-> "Hi"]>>),
     ChunkItem(<<[shape |-> "object", role |-> "tool", content |-> "Hi"]>>),
     ChunkItem(<<[shape |-> "object", role |-> "assistant", content |-> ""],
                 [shape |-> "object", role |-> "user", content |-> "Hi"]>>),
     [kind |-> "Other"]}
Feeds == SeqsUpTo(FeedItems, MaxFeed)
StreamPaths == {<<"_stream", "_stream">>, <<"_stream", "_astream">>, <<"_astream", "_astream">>}

NewStream(path, run_manager, stream) ==
    [path |-> path, run_manager |-> run_manager, stream |-> stream, pulled |-> 0,
     held |-> <<>>, pending |-> <<>>, dcc |-> InitialDefault, pc |-> "streaming",
     log |-> <<>>]

InitStreams ==
    /\ Idle
    /\ \E i \in {x \in CallInstances : x.model_kwargs = EmptyDict} : About("streams", i, None)
    /\ \E paths \in StreamPaths, run_manager \in BOOLEAN, stream \in Feeds :
          streams = [s \in StreamIds |-> NewStream(paths[s], run_manager, stream)]

\* default_chunk_class as generator s reads it
SharedDefaultChunkClass(st, s) == st[1].dcc
DefaultChunkClass(st, s) == st[s].dcc

\* log after run_manager.on_llm_new_token(content, chunk=cg_chunk) and
\* yield cg_chunk for the message_chunk built from delta of item k
EmitYieldFirst(log, k, delta, message_chunk, run_manager) ==
    log \o <<[ev |-> "yield", k |-> k, delta |-> delta, chunk |-> message_chunk]>>
        \o (IF run_manager
            THEN <<[ev |-> "token", k |-> k, token |-> message_chunk.content]>>
            ELSE <<>>)
Emit(log, k, delta, message_chunk, run_manager) ==
    log \o (IF run_manager
            THEN <<[ev |-> "token", k |-> k, token |-> message_chunk.content]>>
            ELSE <<>>)
        \o <<[ev |-> "yield", k |-> k, delta |-> delta, chunk |-> message_chunk]>>

\* _astream suspends at `await run_manager.on_llm_new_token(...)`
Awaits(r) == r.path = "_astream" /\ r.run_manager

\* the generator r after the body of the loop for one delta, converted to
\* message_chunk, up to its yield or up to the await before it; held are
\* the choices the inner loop goes on with
AfterDelta(r, delta, message_chunk, held) ==
    IF message_chunk.ok /\ Awaits(r)
    THEN [r EXCEPT !.dcc = NewDefaultChunkClass(message_chunk.val, r.dcc),
                   !.held = held,
                   !.pending = <<[delta |-> delta, chunk |-> message_chunk.val]>>,
                   !.log = Append(r.log, [ev |-> "token", k |-> r.pulled,
                                          token |-> message_chunk.val.content])]
    ELSE IF message_chunk.ok
    THEN [r EXCEPT !.dcc = NewDefaultChunkClass(message_chunk.val, r.dcc),
                   !.held = held,
                   !.log = Emit(r.log, r.pulled, delta, message_chunk.val, r.run_manager)]
    ELSE [r EXCEPT !.pc = "raised", !.held = <<>>,
                   !.log = Append(r.log, [ev |-> "raise", k |-> r.pulled,
                                          err |-> message_chunk.err])]

\* the generator r after it pulled the next item of its underlying stream
AfterPull(r) ==
    [r EXCEPT !.pulled = r.pulled + 1,
              !.log = Append(r.log, [ev |-> "pull", k |-> r.pulled + 1])]

\* the generator r after it raised err on the item it pulled
AfterRaise(r, err) ==
    [r EXCEPT !.pc = "raised",
              !.log = Append(r.log, [ev |-> "raise", k |-> r.pulled, err |-> err])]

\* _stream: one turn of the for loop
Pull(s) ==
    /\ streams[s].pc = "streaming"
    /\ streams[s].path = "_stream"
    /\ streams[s].pulled < Len(streams[s].stream)
    /\ streams' =
          [streams EXCEPT ![s] =
              IF streams[s].stream[streams[s].pulled + 1].kind # "ChatCompletionChunk"
              THEN AfterRaise(AfterPull(streams[s]), "AttributeError")
              ELSE IF Len(streams[s].stream[streams[s].pulled + 1].choices) = 0
              THEN AfterPull(streams[s])
              ELSE AfterDelta(AfterPull(streams[s]),
                              streams[s].stream[streams[s].pulled + 1].choices[1],
                              ConvertDeltaToMessageChunk(
                                  ModelDumpDelta(
                                      streams[s].stream[streams[s].pulled + 1].choices[1]),
                                  DefaultChunkClass(streams, s)),
                              <<>>)]
    /\ UNCHANGED <<inst, fn, arg, ret, back, pc, call, sent, resp, pos, item, dcc, out>>

\* _astream: one turn of the async for loop, up to the first yield of the
\* inner loop
PullAsync(s) ==
    /\ streams[s].pc = "streaming"
    /\ streams[s].path = "_astream"
    /\ streams[s].pending = <<>>
    /\ streams[s].held = <<>>
    /\ streams[s].pulled < Len(streams[s].stream)
    /\ streams' =
          [streams EXCEPT ![s] =
              IF streams[s].stream[streams[s].pulled + 1].kind # "ChatCompletionChunk"
              THEN AfterRaise(AfterPull(streams[s]), "ValueError")
              ELSE IF Len(streams[s].stream[streams[s].pulled + 1].choices) = 0
              THEN AfterPull(streams[s])
              ELSE AfterDelta(AfterPull(streams[s]),
                              streams[s].stream[streams[s].pulled + 1].choices[1],
                              ConvertDeltaToMessageChunk(
                                  streams[s].stream[streams[s].pulled + 1].choices[1],
                                  DefaultChunkClass(streams, s)),
                              Tail(streams[s].stream[streams[s].pulled + 1].choices))]
    /\ UNCHANGED <<inst, fn, arg, ret, back, pc, call, sent, resp, pos, item, dcc, out>>

\* _astream: the inner loop goes on to the next choice of the item it holds
NextChoice(s) ==
    /\ streams[s].pc = "streaming"
    /\ streams[s].path = "_astream"
    /\ streams[s].pending = <<>>
    /\ streams[s].held # <<>>
    /\ streams' =
          [streams EXCEPT ![s] =
              AfterDelta(streams[s], Head(streams[s].held),
                         ConvertDeltaToMessageChunk(Head(streams[s].held),
                                                    DefaultChunkClass(streams, s)),
                         Tail(streams[s].held))]
    /\ UNCHANGED <<inst, fn, arg, ret, back, pc, call, sent, resp, pos, item, dcc, out>>

\* _astream: on_llm_new_token returned, the generator yields the chunk
Resume(s) ==
    /\ streams[s].pc = "streaming"
    /\ streams[s].pending # <<>>
    /\ streams' =
          [streams EXCEPT ![s].pending = <<>>,
                          ![s].log = Append(streams[s].log,
                                            [ev |-> "yield", k |-> streams[s].pulled,
                                             delta |-> streams[s].pending[1].delta,
                                             chunk |-> streams[s].pending[1].chunk])]
    /\ UNCHANGED <<inst, fn, arg, ret, back, pc, call, sent, resp, pos, item, dcc, out>>

\* _astream: the task is cancelled while the generator awaits
\* on_llm_new_token: CancelledError leaves the generator, nothing is yielded
Cancel(s) ==
    /\ streams[s].pc = "streaming"
    /\ streams[s].pending # <<>>
    /\ streams' = [streams EXCEPT ![s].pending = <<>>, ![s].pc = "cancelled"]
    /\ UNCHANGED <<inst, fn, arg, ret, back, pc, call, sent, resp, pos, item, dcc, out>>

\* the underlying stream is exhausted: the generator returns
Exhaust(s) ==
    /\ streams[s].pc = "streaming"
    /\ streams[s].pending = <<>>
    /\ streams[s].held = <<>>
    /\ streams[s].pulled = Len(streams[s].stream)
    /\ streams' = [streams EXCEPT ![s].pc = "done"]
    /\ UNCHANGED <<inst, fn, arg, ret, back, pc, call, sent, resp, pos, item, dcc, out>>

NextStreams ==
    \E s \in StreamIds :
        \/ Pull(s)
        \/ PullAsync(s)
        \/ NextChoice(s)
        \/ Resume(s)
        \/ Cancel(s)
        \/ Exhaust(s)

SpecStreams == InitStreams /\ [][NextStreams]_vars

-----------------------------------------------------------------------------
(* Properties of the message conversions *)

\* f was applied to arg and returned or raised
Done(f) == fn = f /\ ret # NotCalled

\* the role of the wire message of a message that is not a ChatMessage
RoleOfClass(type) ==
    CASE type = "HumanMessage" -> "user"
      [] type = "AIMessage" -> "assistant"
      [] type = "SystemMessage" -> "system"
      [] type = "FunctionMessage" -> "function"
      [] type = "ToolMessage" -> "tool"
      [] OTHER -> "<no role>"

\* content and role of the wire message ret.val are those of the message arg
ContentAndRole ==
    /\ ret.val.content = arg.content
    /\ ret.val.role = IF arg.type = "ChatMessage" THEN arg.role ELSE RoleOfClass(arg.type)
    /\ arg.type = "ToolMessage" => ret.val.tool_call_id = arg.tool_call_id

\* C1, as stated: the wire message of m carries m's content, the role of m's
\* variant, for Function name = m.name and for Tool tool_call_id = m.tool_call_id.
C1_AsStated ==
    Done("_convert_message_to_dict") /\ ret.ok =>
        /\ ContentAndRole
        /\ arg.type = "FunctionMessage" => ret.val.name = arg.name

\* C1, amended: the wire message of m carries m's content, the role of m's
\* variant and for Tool m's tool_call_id; its name is the name in m's
\* additional_kwargs when there is one, and otherwise m.name for Function.
C1_ContentRoleName ==
    Done("_convert_message_to_dict") /\ ret.ok =>
        /\ ContentAndRole
        /\ IF Has(arg.additional_kwargs, "name")
           THEN Get(ret.val, "name") = arg.additional_kwargs["name"]
           ELSE IF arg.type = "FunctionMessage" THEN Get(ret.val, "name") = arg.name
           ELSE ~Has(ret.val, "name")

C1_Witness ==
    /\ Done("_convert_message_to_dict")
    /\ arg.type = "FunctionMessage"
    /\ Has(arg.additional_kwargs, "name")
    /\ ret.ok
    /\ ret.val.role = "function"
    /\ ret.val.name # arg.name

\* the wire tool call e is the encoding of the ToolCall tool_call
EncodingOf(e, tool_call) ==
    /\ DOMAIN e = {"type", "id", "function"}
    /\ e.type = "function"
    /\ e.id = tool_call.id
    /\ DOMAIN e.function = {"name", "arguments"}
    /\ e.function.name = tool_call.name
    /\ JsonLoads(e.function.arguments) = Ok(tool_call.args)

\* C2: the wire message of an AI message with structured tool calls carries
\* their encodings, one per tool call and in the same order, whose arguments
\* are a JSON text that reads back as the args; without structured tool calls
\* it carries the raw tool_calls of additional_kwargs unchanged when there are
\* some, and no tool_calls key otherwise.
C2_ToolCallsToWire ==
    Done("_convert_message_to_dict") /\ arg.type = "AIMessage" =>
        /\ ret.ok
        /\ IF Len(arg.tool_calls) > 0
           THEN /\ Has(ret.val, "tool_calls")
                /\ Len(ret.val.tool_calls) = Len(arg.tool_calls)
                /\ \A i \in 1..Len(arg.tool_calls) :
                       EncodingOf(ret.val.tool_calls[i], arg.tool_calls[i])
           ELSE IF Has(arg.additional_kwargs, "tool_calls")
           THEN /\ Has(ret.val, "tool_calls")
                /\ ret.val.tool_calls = arg.additional_kwargs["tool_calls"]
           ELSE ~Has(ret.val, "tool_calls")

C2_Witness ==
    /\ Done("_convert_message_to_dict")
    /\ arg.type = "AIMessage"
    /\ Len(arg.tool_calls) = 2
    /\ arg.tool_calls[1] # arg.tool_calls[2]
    /\ Len(arg.tool_calls[1].args) = 2
    /\ Has(arg.additional_kwargs, "tool_calls")
    /\ arg.additional_kwargs["tool_calls"] # <<>>
    /\ ret.ok
    /\ ret.val.tool_calls[1].function.arguments = JsonDumps(arg.tool_calls[1].args)

\* the class of the message of a wire message with the role r
ClassOfRole(r) ==
    CASE r = "user" -> "HumanMessage"
      [] r = "assistant" -> "AIMessage"
      [] r = "system" -> "SystemMessage"
      [] r = "function" -> "FunctionMessage"
      [] r = "tool" -> "ToolMessage"
      [] OTHER -> "ChatMessage"

\* ret.val is the message of a wire message whose role is r, None when the
\* wire message has none
ClassifiedAs(r) ==
    /\ ret.val.type = ClassOfRole(r)
    /\ ret.val.type = "ChatMessage" =>
           ret.val.role = IF r \in {None, ""} THEN "unknown" ELSE r

\* the wire message d has the keys the branch of its role reads
HasKeysOfRole(d) ==
    /\ Get(d, "role") # "assistant" => Has(d, "content")
    /\ Get(d, "role") = "function" => Has(d, "name")
    /\ Get(d, "role") = "tool" => Has(d, "tool_call_id")

C4_AsStated ==
    Done("_convert_dict_to_message") =>
        /\ Get(arg, "role") = "assistant" /\ Get(arg, "content") = None =>
               ret.ok /\ ret.val.type = "AIMessage" /\ ret.val.content = ""
        /\ ret.ok /\ ret.val.type = "AIMessage" => ret.val.content # None

\* what the code keeps of C4: an assistant conversion either returns or raises
\* the TypeError of a tool call entry (json.loads of arguments that are not a
\* str); when it returns, the result is an AI message whose content is "" for
\* an absent or None content and the given content otherwise.
C4_AssistantContent ==
    Done("_convert_dict_to_message") /\ Get(arg, "role") = "assistant" /\ ret.ok =>
        /\ ret.val.type = "AIMessage"
        /\ ret.val.content # None
        /\ Get(arg, "content") = None => ret.val.content = ""
        /\ Get(arg, "content") # None => ret.val.content = arg.content

C4_FailsOnlyInToolCalls ==
    Done("_convert_dict_to_message") /\ Get(arg, "role") = "assistant" /\ ~ret.ok =>
        /\ ret = Raise("TypeError")
        /\ Has(arg, "tool_calls")

C4_Witness ==
    /\ Done("_convert_dict_to_message")
    /\ Get(arg, "role") = "assistant"
    /\ Has(arg, "content")
    /\ arg.content = None
    /\ Has(arg, "tool_calls")
    /\ ret.ok
    /\ ret.val.content = ""
    /\ Len(ret.val.tool_calls) > 0

\* the round trip of the message arg is over
RoundTrip == fn = "_convert_message_to_dict" /\ back # NotCalled

\* back.val is arg again: class, content and the fields of the class
SameMessage ==
    /\ back.ok
    /\ back.val.type = arg.type
    /\ back.val.content = arg.content
    /\ arg.type = "ChatMessage" => back.val.role = arg.role
    /\ arg.type = "FunctionMessage" => back.val.name = arg.name
    /\ arg.type = "ToolMessage" => back.val.tool_call_id = arg.tool_call_id

NonAI == {"HumanMessage", "SystemMessage", "FunctionMessage", "ToolMessage", "ChatMessage"}
KnownRoles == {"user", "assistant", "system", "function", "tool"}

Stable(m) ==
    \/ m.type \in {"HumanMessage", "SystemMessage", "ToolMessage"}
    \/ m.type = "FunctionMessage" /\ ~Has(m.additional_kwargs, "name")
    \/ m.type = "ChatMessage" /\ m.role # "" /\ m.role \notin KnownRoles

WellFormed(tool_call) ==
    /\ Has(tool_call, "function")
    /\ Has(tool_call["function"], "name")
    /\ Has(tool_call["function"], "arguments")
    /\ tool_call["function"]["arguments"] \in GoodTexts

\* the ToolCalls of the well formed entries of raw, in their order
RECURSIVE WellFormedCalls(_)
WellFormedCalls(raw) ==
    IF raw = <<>> THEN <<>>
    ELSE IF WellFormed(Head(raw))
    THEN <<ToolCall(Head(raw)["function"]["name"],
                    JsonLoads(Head(raw)["function"]["arguments"]).val,
                    Get(Head(raw), "id"))>> \o WellFormedCalls(Tail(raw))
    ELSE WellFormedCalls(Tail(raw))

\* C6: an assistant wire message with tool_calls is converted whatever its
\* entries are, and the tool_calls of the AI message are those of the well
\* formed entries, in their order.
C6_BadEntriesSkipped ==
    Done("_convert_dict_to_message") /\ Get(arg, "role") = "assistant"
        /\ Has(arg, "tool_calls") =>
            /\ ret.ok
            /\ ret.val.tool_calls = WellFormedCalls(arg["tool_calls"])

\* C7: with a usage record, every AI message of the result has the usage
\* input = prompt_tokens, output = completion_tokens, total = their sum,
\* whatever the total_tokens of the record; the other messages have none;
\* without a usage record no message has one.
C7_Usage ==
    Done("_create_chat_result") /\ ret.ok =>
        /\ Len(ret.val.generations) = Len(arg.choices)
        /\ \A i \in 1..Len(ret.val.generations) :
             IF ret.val.generations[i].message.type = "AIMessage" /\ Has(arg, "usage")
             THEN ret.val.generations[i].message.usage_metadata =
                      [input_tokens |-> arg.usage.prompt_tokens,
                       output_tokens |-> arg.usage.completion_tokens,
                       total_tokens |-> arg.usage.prompt_tokens
                                        + arg.usage.completion_tokens]
             ELSE ~Has(ret.val.generations[i].message, "usage_metadata")

C7_Witness ==
    /\ Done("_create_chat_result")
    /\ ret.ok
    /\ Has(arg, "usage")
    /\ arg.usage.total_tokens # arg.usage.prompt_tokens + arg.usage.completion_tokens
    /\ Len(ret.val.generations) = 2
    /\ ret.val.generations[1].message.type = "AIMessage"
    /\ ret.val.generations[1].message.usage_metadata.total_tokens = 3
    /\ ret.val.generations[2].message.type = "HumanMessage"

-----------------------------------------------------------------------------
(* Properties of the call paths *)

\* a call path ran up to the completion call, or raised before it
Begun == call # NoCall /\ pc # "start"

\* every message of the call is of a class _convert_message_to_dict knows
Convertible(messages) == \A i \in 1..Len(messages) : messages[i].type # "RemoveMessage"

\* the first message of an unknown class
RECURSIVE FirstUnknown(_)
FirstUnknown(messages) ==
    IF Head(messages).type = "RemoveMessage" THEN Head(messages)
    ELSE FirstUnknown(Tail(messages))

\* C8: when stop is given at call time and is among the default parameters of
\* the instance, _create_params raises ValueError, and so does every call
\* path, before the completion call is made.
C8_StopConflict ==
    /\ Done("_create_params") /\ arg.stop # NoneSeq /\ Has(inst.model_kwargs, "stop") =>
           ret = Raise("ValueError")
    /\ Begun /\ call.stop # NoneSeq /\ Has(inst.model_kwargs, "stop")
             /\ Convertible(call.messages) =>
           /\ pc = "raised"
           /\ out = Failed(Raise("ValueError"))
           /\ sent = <<>>
           /\ resp = NotCalled

C8_Witness ==
    /\ Begun
    /\ call.path = "_astream"
    /\ call.stop = <<"x">>
    /\ Has(inst.model_kwargs, "stop")
    /\ Len(call.messages) = 2
    /\ pc = "raised"
    /\ sent = <<>>

\* C9: a message of a class the conversion does not know makes
\* _convert_message_to_dict raise a ValueError about that message, and so
\* does every call path, before the completion call is made.
C9_UnknownMessage ==
    /\ Done("_convert_message_to_dict") /\ arg.type \notin NonAI \cup {"AIMessage"} =>
           ret = RaiseAbout("ValueError", arg)
    /\ Begun /\ ~Convertible(call.messages) =>
           /\ pc = "raised"
           /\ out = Failed(RaiseAbout("ValueError", FirstUnknown(call.messages)))
           /\ sent = <<>>
           /\ resp = NotCalled

C9_Witness ==
    /\ Begun
    /\ call.path = "_generate"
    /\ call.stream
    /\ Len(call.messages) = 2
    /\ call.messages[1].type = "HumanMessage"
    /\ call.messages[2].type = "RemoveMessage"
    /\ out = Failed(RaiseAbout("ValueError", call.messages[2]))
    /\ sent = <<>>

\* the class the result of the completion call must be an instance of
ExpectedClass(c) == IF Streaming(c) THEN StreamShape(c) ELSE "ChatCompletion"

\* C10: when the completion call returns a value that is not a ChatCompletion
\* (_generate, _agenerate), not an Iterator (_stream) or not an AsyncIterator
\* (_astream), or when an item of the stream of _astream is not a
\* ChatCompletionChunk, the call raises ValueError and gives no result and
\* no chunk.
C10_WrongShape ==
    /\ resp # NotCalled /\ resp.shape # ExpectedClass(call) =>
           /\ pc = "raised"
           /\ out = Failed(Raise("ValueError"))
           /\ pos.yielded = 0
    /\ Async(call) /\ item # NoItem /\ item.kind # "ChatCompletionChunk" =>
           /\ pc = "raised"
           /\ out = Failed(Raise("ValueError"))

C10_Witness ==
    /\ call.path = "_astream"
    /\ resp = [shape |-> "AsyncIterator"]
    /\ item # NoItem
    /\ item.kind = "Other"
    /\ pos.yielded = 1
    /\ pc = "raised"
    /\ out = Failed(Raise("ValueError"))

-----------------------------------------------------------------------------
(* Properties of _create_params *)

\* C11: the tool_choice of a call is translated when the call has tools too:
\* True and "any" become "required", False becomes "none", every other value
\* is handed on as it is; in a call without tools the tool_choice of the call
\* is not translated and not handed on: the parameters have the tool_choice
\* of the defaults, if any.
C11_ToolChoice ==
    Done("_create_params") /\ ret.ok =>
        IF Has(arg.kwargs, "tool_choice") /\ Has(arg.kwargs, "tools")
        THEN /\ Has(ret.val, "tool_choice")
             /\ ret.val["tool_choice"] =
                   CASE arg.kwargs["tool_choice"] \in {PyTrue, "any"} -> "required"
                     [] arg.kwargs["tool_choice"] = PyFalse -> "none"
                     [] OTHER -> arg.kwargs["tool_choice"]
        ELSE /\ Has(ret.val, "tool_choice") <=> Has(inst.model_kwargs, "tool_choice")
             /\ Get(ret.val, "tool_choice") = Get(inst.model_kwargs, "tool_choice")

C11_Witness ==
    /\ Done("_create_params")
    /\ Has(arg.kwargs, "tools")
    /\ Has(arg.kwargs, "tool_choice")
    /\ arg.kwargs["tool_choice"] = PyFalse
    /\ Has(inst.model_kwargs, "tool_choice")
    /\ ret.ok
    /\ ret.val["tool_choice"] = "none"
    /\ ret.val["tools"] = arg.kwargs["tools"]

\* the entry of a delta's tool_calls is malformed: it has no function, its
\* function is not of the entry's shape, or its function is a dict without keys
MalformedEntry(rtc) ==
    \/ ~Has(rtc, "function")
    \/ rtc.function.shape # rtc.shape
    \/ DOMAIN rtc.function = {"shape"}

\* the ToolCallChunks of the entries of raw that are not malformed, in order
RECURSIVE ChunksOfWellFormed(_)
ChunksOfWellFormed(raw) ==
    IF raw = <<>> THEN <<>>
    ELSE IF MalformedEntry(Head(raw)) THEN ChunksOfWellFormed(Tail(raw))
    ELSE <<ToolCallChunk(OrEmpty(Get(Head(raw).function, "name")),
                         OrEmpty(Get(Head(raw).function, "arguments")),
                         Get(Head(raw), "id"), Get(Head(raw), "index"))>>
         \o ChunksOfWellFormed(Tail(raw))

\* C13: a delta with tool_calls is converted whatever its entries are, and
\* the tool call chunks of the AI chunk are those of the entries that are not
\* malformed, in their order.
C13_MalformedSkipped ==
    Done("_convert_delta_to_message_chunk") /\ Has(arg.delta, "tool_calls") =>
        /\ ret.ok
        /\ Get(ret.val, "tool_call_chunks") = ChunksOfWellFormed(arg.delta.tool_calls)

\* C13, the entries for which it holds: a dict entry is skipped when it is
\* malformed, an object entry when it has no function, unless the entries
\* of the fragment are all dicts without the key function.
C13_SkippedByCode ==
    Done("_convert_delta_to_message_chunk") /\ Has(arg.delta, "tool_calls")
    /\ (\A i \in 1..Len(arg.delta.tool_calls) :
           LET rtc == arg.delta.tool_calls[i]
           IN  rtc.shape = "object" /\ Has(rtc, "function") =>
                   rtc.function.shape = "object")
    /\ (\E i \in 1..Len(arg.delta.tool_calls) :
           LET rtc == arg.delta.tool_calls[i]
           IN  rtc.shape # "dict" \/ Has(rtc, "function")) =>
        /\ ret.ok
        /\ Get(ret.val, "tool_call_chunks") = ChunksOfWellFormed(arg.delta.tool_calls)

\* the chunk class an explicit role stands for
ChunkClassOfRole(role) ==
    CASE role = "user" -> "HumanMessageChunk"
      [] role = "assistant" -> "AIMessageChunk"
      [] role = "system" -> "SystemMessageChunk"
      [] OTHER -> None

\* the delta conversion returned a chunk of class c
ChunkOfClass(r, c) == r.ok /\ r.val.type = c

\* C16 as stated: a role of user, assistant or system decides the class of
\* the chunk whatever the default class is, and a delta without a role is of
\* the default class.
C16_AsStated ==
    Done("_convert_delta_to_message_chunk") =>
        /\ Get(arg.delta, "role") \in {"user", "assistant", "system"} =>
               ChunkOfClass(ret, ChunkClassOfRole(arg.delta.role))
        /\ ~Has(arg.delta, "role") /\ ret.ok => ret.val.type = arg.default_class

\* C16: role user gives a Human chunk; role assistant gives an AI chunk unless
\* the default class is Human; role system gives a System chunk unless the
\* default class is Human or AI; in those cases, and for a delta without a
\* role, the chunk is of the default class.
C16_RoleThenDefault ==
    Done("_convert_delta_to_message_chunk") =>
        /\ Get(arg.delta, "role") = "user" => ChunkOfClass(ret, "HumanMessageChunk")
        /\ Get(arg.delta, "role") = "assistant" =>
               ChunkOfClass(ret, IF arg.default_class = "HumanMessageChunk"
                                 THEN arg.default_class ELSE "AIMessageChunk")
        /\ Get(arg.delta, "role") = "system" =>
               ChunkOfClass(ret, IF arg.default_class \in {"HumanMessageChunk", "AIMessageChunk"}
                                 THEN arg.default_class ELSE "SystemMessageChunk")
        /\ ~Has(arg.delta, "role") =>
               /\ ret.ok => ret.val.type = arg.default_class
               /\ arg.default_class \in
                      {"HumanMessageChunk", "AIMessageChunk", "SystemMessageChunk"} => ret.ok

\* a delta with role assistant converted with the default class Human
C16_Witness ==
    /\ Done("_convert_delta_to_message_chunk")
    /\ Get(arg.delta, "role") = "assistant"
    /\ Get(arg.delta, "content") = "Hi"
    /\ arg.default_class = "HumanMessageChunk"
    /\ ret = Ok(HumanMessageChunk("Hi"))

\* r is a ChatMessageChunk with role tool and the content of the delta
ToolRoleChunk(r, delta) ==
    /\ ChunkOfClass(r, "ChatMessageChunk")
    /\ Get(r.val, "role") = "tool"
    /\ r.val.content = OrEmpty(Get(delta, "content"))

\* C18 as stated: a delta with role tool gives a ChatMessageChunk with role
\* tool and the content of the delta.
C18_AsStated ==
    Done("_convert_delta_to_message_chunk") /\ Get(arg.delta, "role") = "tool" =>
        ToolRoleChunk(ret, arg.delta)

\* C18: a delta with role tool gives a chunk of the default class when that
\* is Human, AI or System; with the default class Function and a
\* function_call it gives no ChatMessageChunk; otherwise it gives a
\* ChatMessageChunk with role tool and the content of the delta.
C18_ToolRole ==
    Done("_convert_delta_to_message_chunk") /\ Get(arg.delta, "role") = "tool" =>
        IF arg.default_class \in {"HumanMessageChunk", "AIMessageChunk", "SystemMessageChunk"}
        THEN /\ ChunkOfClass(ret, arg.default_class)
             /\ ret.val.content = OrEmpty(Get(arg.delta, "content"))
        ELSE IF arg.default_class = "FunctionMessageChunk" /\ TruthyFunctionCall(arg.delta)
        THEN ~ChunkOfClass(ret, "ChatMessageChunk")
        ELSE ToolRoleChunk(ret, arg.delta)

\* a delta with role tool converted with the default class ToolMessageChunk
C18_Witness ==
    /\ Done("_convert_delta_to_message_chunk")
    /\ Get(arg.delta, "role") = "tool"
    /\ Get(arg.delta, "content") = "Hi"
    /\ arg.default_class = "ToolMessageChunk"
    /\ ToolRoleChunk(ret, arg.delta)

\* two results of the delta conversion are the same chunk: the same class,
\* content, name, tool call chunks, function_call and reasoning_content
SameChunk(a, b) ==
    /\ a.ok = b.ok
    /\ a.ok =>
         /\ a.val.type = b.val.type
         /\ a.val.content = b.val.content
         /\ Has(a.val, "name") = Has(b.val, "name")
         /\ Get(a.val, "name") = Get(b.val, "name")
         /\ Has(a.val, "tool_call_chunks") = Has(b.val, "tool_call_chunks")
         /\ Has(a.val, "tool_call_chunks") /\ Has(b.val, "tool_call_chunks") =>
                /\ a.val.tool_call_chunks = b.val.tool_call_chunks
                /\ \A k \in {"function_call", "reasoning_content"} :
                       /\ Has(a.val.additional_kwargs, k) = Has(b.val.additional_kwargs, k)
                       /\ Has(a.val.additional_kwargs, k) /\ Has(b.val.additional_kwargs, k) =>
                              a.val.additional_kwargs[k] = b.val.additional_kwargs[k]

\* C19: a delta made of attribute objects and the dict of the same field
\* values are converted to the same chunk, for every default class.
C19_ShapeTransparent ==
    fn = "_convert_delta_to_message_chunk" /\ back # NotCalled => SameChunk(ret, back)

\* C19, the deltas for which it holds: those converted with another default
\* class than FunctionMessageChunk, or without a function_call.
C19_SameButFunctionChunk ==
    fn = "_convert_delta_to_message_chunk" /\ back # NotCalled =>
        \/ arg.default_class = "FunctionMessageChunk" /\ Has(arg.delta, "function_call")
        \/ SameChunk(ret, back)

-----------------------------------------------------------------------------
(* Claims about streams *)

IsYield(e) == e.ev = "yield"
\* the yields of a log, in order: each with its delta and its chunk
Yields(log) == SelectSeq(log, IsYield)
\* the chunks a generator yielded so far, in order
ChunksOf(r) == [j \in 1..Len(Yields(r.log)) |-> Yields(r.log)[j].chunk]

\* each role-less delta of the yields Y gave a chunk of the class of the
\* chunk before it, of AIMessageChunk when it is the first
StickyIn(Y) ==
    \A j \in 1..Len(Y) :
        ~Has(Y[j].delta, "role") =>
            Y[j].chunk.type = (IF j = 1 THEN "AIMessageChunk" ELSE Y[j - 1].chunk.type)

\* the role-less delta j of Y gave an AI chunk with its content
AIWithContent(Y, j) ==
    /\ Y[j].chunk.type = "AIMessageChunk"
    /\ Y[j].chunk.content = OrEmpty(Get(Y[j].delta, "content"))

\* in Y, every role-less delta after a delta with role assistant gave an AI
\* chunk with its content
AfterAssistantIn(Y) ==
    \A i \in 1..Len(Y), j \in 1..Len(Y) :
        i < j /\ Get(Y[i].delta, "role") = "assistant" /\ ~Has(Y[j].delta, "role") =>
            AIWithContent(Y, j)

\* the same, for the deltas that no delta with role user precedes
AfterAssistantNoUserIn(Y) ==
    \A i \in 1..Len(Y), j \in 1..Len(Y) :
        /\ i < j /\ Get(Y[i].delta, "role") = "assistant" /\ ~Has(Y[j].delta, "role")
        /\ \A m \in 1..j : Get(Y[m].delta, "role") # "user"
        => AIWithContent(Y, j)

\* C12 as stated: a role-less fragment is classified as the chunk before it
\* (AI for the first), and after a fragment with role assistant every
\* role-less fragment gives an AI chunk with its content.
C12_AsStated ==
    \A s \in DOMAIN streams :
        StickyIn(Yields(streams[s].log)) /\ AfterAssistantIn(Yields(streams[s].log))

\* C12: a role-less fragment is classified as the chunk before it (AI for
\* the first), and after a fragment with role assistant every role-less
\* fragment that no fragment with role user precedes gives an AI chunk with
\* its content.
C12_Sticky ==
    \A s \in DOMAIN streams :
        StickyIn(Yields(streams[s].log)) /\ AfterAssistantNoUserIn(Yields(streams[s].log))

\* a stream gave an AI chunk for a role-less fragment after one with role
\* assistant
C12_Witness ==
    /\ DOMAIN streams = StreamIds
    /\ \E s \in StreamIds :
          /\ Len(Yields(streams[s].log)) = 2
          /\ Get(Yields(streams[s].log)[1].delta, "role") = "assistant"
          /\ Yields(streams[s].log)[2].delta = [shape |-> "object", content |-> "Hi"]
          /\ Yields(streams[s].log)[2].chunk = AIMessageChunk("Hi", EmptyDict, <<>>)
          /\ streams[s].pc = "done"

\* the fragments a generator maps, in order, from the items of its underlying
\* stream up to the first that is no ChatCompletionChunk: _stream maps
\* the first choice of an item, _astream every choice
RECURSIVE Fragments(_, _)
Fragments(path, items) ==
    IF items = <<>> \/ Head(items).kind # "ChatCompletionChunk" THEN <<>>
    ELSE (IF path = "_stream" /\ Len(Head(items).choices) > 1
          THEN <<Head(items).choices[1]>>
          ELSE Head(items).choices) \o Fragments(path, Tail(items))

\* the fragments of the items 1..n of the generator r
FragmentsUpTo(r, n) == Fragments(r.path, SubSeq(r.stream, 1, n))

\* the log L keeps the order of the items, gives each chunk to the observer
\* right before it yields it, and yields nothing else; waiting is true when
\* the generator is at, or was cancelled at, the await after a token
InOrder(L, run_manager, waiting) ==
    /\ \A p \in 1..Len(L), q \in 1..Len(L) : p < q => L[p].k <= L[q].k
    /\ \A p \in 1..Len(L) :
          /\ L[p].ev = "yield" /\ run_manager =>
                /\ p > 1
                /\ L[p - 1].ev = "token"
                /\ L[p - 1].k = L[p].k
                /\ L[p - 1].token = L[p].chunk.content
          /\ L[p].ev = "token" =>
                /\ run_manager
                /\ IF p < Len(L) THEN L[p + 1].ev = "yield" ELSE waiting

\* the generator r has yielded a chunk for each fragment of the items
\* before item k when it pulls item k, and for nothing else
NothingHeldBack(r) ==
    /\ \A q \in 1..Len(r.log) :
          r.log[q].ev = "pull" =>
              [j \in 1..Len(Yields(SubSeq(r.log, 1, q))) |->
                  Yields(SubSeq(r.log, 1, q))[j].delta]
              = FragmentsUpTo(r, r.log[q].k - 1)
    /\ r.held = <<>> /\ r.pending = <<>> /\ r.pc \in {"streaming", "done"} =>
          [j \in 1..Len(Yields(r.log)) |-> Yields(r.log)[j].delta]
          = FragmentsUpTo(r, r.pulled)

\* C14: a generator requests item k+1 of its underlying stream only after
\* the chunk of each fragment of item k was given to the observer and
\* yielded, in the order of the fragments, one chunk for one fragment.
C14_NoBuffering ==
    \A s \in DOMAIN streams :
        /\ InOrder(streams[s].log, streams[s].run_manager,
                   Awaits(streams[s])
                   /\ (streams[s].pending # <<>> \/ streams[s].pc = "cancelled"))
        /\ NothingHeldBack(streams[s])

\* a generator of _stream with an observer yielded for two items, while a
\* generator of _astream yielded for the first and awaits the observer for
\* the second
C14_Witness ==
    /\ DOMAIN streams = StreamIds
    /\ streams[1].path = "_stream"
    /\ streams[1].run_manager
    /\ Len(streams[1].log) = 6
    /\ streams[1].log[1].ev = "pull"
    /\ streams[1].log[2].ev = "token"
    /\ streams[1].log[3].ev = "yield"
    /\ streams[1].log[4] = [ev |-> "pull", k |-> 2]
    /\ streams[1].log[5].ev = "token"
    /\ streams[1].log[6].ev = "yield"
    /\ streams[2].path = "_astream"
    /\ streams[2].pending # <<>>
    /\ Len(streams[2].log) = 5
    /\ streams[2].log[3].ev = "yield"
    /\ streams[2].log[4] = [ev |-> "pull", k |-> 2]
    /\ streams[2].log[5].ev = "token"

\* the chunks of the fragments ds converted one after the other, starting
\* with the default class default_chunk_class, as the path gives them to
\* _convert_delta_to_message_chunk
RECURSIVE Classified(_, _, _)
ClassifiedMore(path, ds, r) ==
    IF r.ok THEN <<r.val>> \o Classified(path, Tail(ds), r.val.type) ELSE <<>>
Classified(path, ds, default_chunk_class) ==
    IF ds = <<>> THEN <<>>
    ELSE ClassifiedMore(path, ds,
             ConvertDeltaToMessageChunk(
                 IF path = "_stream" THEN ModelDumpDelta(Head(ds)) ELSE Head(ds),
                 default_chunk_class))

\* the chunks the generator r yields when it runs alone
Alone(r) == Classified(r.path, Fragments(r.path, r.stream), "AIMessageChunk")

IsPrefix(a, b) == Len(a) <= Len(b) /\ a = SubSeq(b, 1, Len(a))

\* C15: each of two generators that run interleaved on one instance yields
\* the chunks it yields when it runs alone.
C15_Isolated ==
    \A s \in DOMAIN streams :
        /\ IsPrefix(ChunksOf(streams[s]), Alone(streams[s]))
        /\ streams[s].pc \in {"done", "raised"} => ChunksOf(streams[s]) = Alone(streams[s])

\* one generator has gone over to Human chunks while the other, on the same
\* items, is behind it and yielded an AI chunk
C15_Witness ==
    /\ DOMAIN streams = StreamIds
    /\ streams[1].dcc = "HumanMessageChunk"
    /\ streams[1].pc = "done"
    /\ streams[2].pc = "streaming"
    /\ streams[2].dcc = "AIMessageChunk"
    /\ streams[2].pulled = 1
    /\ Len(Yields(streams[2].log)) = 1

\* the class of a chunk changes from one yield of Y to a later one to Human
\* only, with a fragment of role user
ChangesToHumanOnly(Y) ==
    /\ \A j \in 1..Len(Y) : Y[j].chunk.type \in {"AIMessageChunk", "HumanMessageChunk"}
    /\ \A i \in 1..Len(Y), j \in 1..Len(Y) :
          i < j =>
              Y[j].chunk.type =
                  IF Y[i].chunk.type = "HumanMessageChunk"
                     \/ \E m \in (i + 1)..j : Get(Y[m].delta, "role") = "user"
                  THEN "HumanMessageChunk"
                  ELSE "AIMessageChunk"

\* the class of the chunks of Y never changes
NeverChanges(Y) ==
    \A i \in 1..Len(Y), j \in 1..Len(Y) : Y[i].chunk.type = Y[j].chunk.type

\* C17 as stated: all chunks of a stream are of the class of its first chunk.
C17_AsStated == \A s \in DOMAIN streams : NeverChanges(Yields(streams[s].log))

\* C17: the chunks of a stream are AI chunks up to the first fragment with
\* role user and Human chunks from it on; no other class occurs.
C17_OnlyToHuman == \A s \in DOMAIN streams : ChangesToHumanOnly(Yields(streams[s].log))

\* a stream yielded an AI chunk, then a Human chunk for role user, then a
\* Human chunk for role assistant
C17_Witness ==
    /\ DOMAIN streams = StreamIds
    /\ \E s \in StreamIds :
          /\ Len(Yields(streams[s].log)) = 3
          /\ Yields(streams[s].log)[1].chunk.type = "AIMessageChunk"
          /\ Get(Yields(streams[s].log)[2].delta, "role") = "user"
          /\ Yields(streams[s].log)[2].chunk.type = "HumanMessageChunk"
          /\ Get(Yields(streams[s].log)[3].delta, "role") = "assistant"
          /\ Yields(streams[s].log)[3].chunk.type = "HumanMessageChunk"

\* C20: _stream and _astream, run on the same items to the end, yield the
\* same chunks.
C20_SameChunks ==
    \A s \in DOMAIN streams, t \in DOMAIN streams :
        streams[s].pc \in {"done", "raised"} /\ streams[t].pc \in {"done", "raised"} =>
            ChunksOf(streams[s]) = ChunksOf(streams[t])

\* C20, the streams for which it holds: those before whose first item that
\* is no ChatCompletionChunk no item has more than one choice.
C20_SameChunksOneChoice ==
    \A s \in DOMAIN streams, t \in DOMAIN streams :
        /\ streams[s].pc \in {"done", "raised"} /\ streams[t].pc \in {"done", "raised"}
        /\ Fragments("_stream", streams[s].stream) = Fragments("_astream", streams[s].stream)
        => ChunksOf(streams[s]) = ChunksOf(streams[t])

\* the chunks of the yields Y are AI or Human chunks, and Human chunks after
\* the first Human chunk
HumanAbsorbs(Y) ==
    /\ \A j \in 1..Len(Y) : Y[j].chunk.type \in {"AIMessageChunk", "HumanMessageChunk"}
    /\ \A i \in 1..Len(Y), j \in 1..Len(Y) :
          i < j /\ Y[i].chunk.type = "HumanMessageChunk" =>
              Y[j].chunk.type = "HumanMessageChunk"

\* C21: every chunk a stream yields is an AI or a Human chunk, and after its
\* first Human chunk every chunk is a Human chunk, whatever the roles of the
\* fragments are.
C21_AIThenHuman == \A s \in DOMAIN streams : HumanAbsorbs(Yields(streams[s].log))

\* a stream yielded an AI chunk for role assistant, a Human chunk for role
\* user and a Human chunk for role tool
C21_Witness ==
    /\ DOMAIN streams = StreamIds
    /\ \E s \in StreamIds :
          /\ Len(Yields(streams[s].log)) = 3
          /\ Get(Yields(streams[s].log)[1].delta, "role") = "assistant"
          /\ Yields(streams[s].log)[1].chunk.type = "AIMessageChunk"
          /\ Get(Yields(streams[s].log)[2].delta, "role") = "user"
          /\ Yields(streams[s].log)[2].chunk.type = "HumanMessageChunk"
          /\ Get(Yields(streams[s].log)[3].delta, "role") = "tool"
          /\ Yields(streams[s].log)[3].chunk.type = "HumanMessageChunk"

\* the sources of the parameters of _create_params, lowest first
InstanceFields(self) ==
    [api_key |-> self.api_key, api_base |-> self.api_base, model |-> self.model]
ParamSources(self, kwargs) == <<InstanceFields(self), self.model_kwargs, kwargs>>

\* the number of sources that give the key k, and the highest that does
SourcesOf(S, k) == {n \in 1..Len(S) : Has(S[n], k)}
HighestOf(S, k) == S[CHOOSE n \in SourcesOf(S, k) : \A m \in SourcesOf(S, k) : m <= n][k]

\* in params, each key of keys that several sources of S give has the value
\* of the highest of them
HighestWins(params, S, keys) ==
    \A k \in keys :
        Cardinality(SourcesOf(S, k)) > 1 => Has(params, k) /\ params[k] = HighestOf(S, k)

\* params has every key of every source of S other than tool_choice
AllKeysIn(params, S) ==
    \A n \in 1..Len(S) : DOMAIN S[n] \ {"tool_choice"} \subseteq DOMAIN params

\* C22 as stated: a key given by several of the sources call-time keyword
\* arguments, model_kwargs and instance fields has the value of the highest
\* of them, tool_choice included, and every key of a source other than
\* tool_choice is in the result.
C22_AsStated ==
    Done("_create_params") /\ ret.ok =>
        /\ HighestWins(ret.val, ParamSources(inst, arg.kwargs),
                       DOMAIN arg.kwargs \cup DOMAIN inst.model_kwargs)
        /\ AllKeysIn(ret.val, ParamSources(inst, arg.kwargs))

\* C22: a key other than tool_choice given by several of the sources
\* call-time keyword arguments, model_kwargs and instance fields has the
\* value of the highest of them, and every key of a source other than
\* tool_choice is in the result.
C22_Precedence ==
    Done("_create_params") /\ ret.ok =>
        /\ HighestWins(ret.val, ParamSources(inst, arg.kwargs),
                       (DOMAIN arg.kwargs \cup DOMAIN inst.model_kwargs) \ {"tool_choice"})
        /\ AllKeysIn(ret.val, ParamSources(inst, arg.kwargs))

\* model is given by the instance field, by model_kwargs and at call time
C22_Witness ==
    /\ Done("_create_params")
    /\ inst.model = "gpt-4"
    /\ Get(inst.model_kwargs, "model") = "o1"
    /\ Get(arg.kwargs, "model") = "o3"
    /\ ret.ok
    /\ Get(ret.val, "model") = "o3"
    /\ Get(ret.val, "temperature") = "0.5"

====
